---- MODULE Spec2Model ----
(***************************************************************************)
(* A model of the retrieval-augmented question answering core:             *)
(*   - InMemoryVectorStore (src/src/lib/vectorStore.ts),                   *)
(*   - queryRag and its helpers (src/unnamed/part_002),                    *)
(*   - the response schema (src/src/lib/ragResponseSchema.ts),             *)
(*   - ingestText and its chunker (src/unnamed/part_003),                  *)
(*   - the route handlers (src/src/app/api) with seedVectorStoreOnce       *)
(*     (src/src/lib/regState.ts) and the registry                          *)
(*     (src/src/lib/ragState.ts).                                          *)
(*                                                                         *)
(* Specifications.                                                         *)
(*   Spec        queryRag invocations while chunks are added to the store  *)
(*   FairSpec    Spec, every collaborator call eventually settling         *)
(*   SpecStore   addDocuments with any batch                               *)
(*   SpecSearch  similaritySearch called on any store                      *)
(*   SpecChunk   one text through CRLF normalisation, trim and chunkText   *)
(*   SpecIngest  two ingestText invocations, interleaved                   *)
(*   SpecIngestQuery  ingestText invocations interleaved with queryRag     *)
(*   SpecRoute   two requests, seeding, validation, query and ingest       *)
(*                                                                         *)
(* Representation choices.                                                 *)
(*   Text is a sequence of one-character strings.                          *)
(*   An embedding is a sequence of integers; the integer NaN stands for    *)
(*   the IEEE value NaN (any arithmetic that touches it yields NaN).       *)
(*   A unit vector v/sqrt(n) is kept as the pair [v, n2]: the integer      *)
(*   vector and its squared magnitude.  A similarity score is kept as     *)
(*   [nan, num, den2] and stands for num/sqrt(den2), so that all           *)
(*   comparisons are exact integer comparisons.                            *)
(*   Fractions of the source (0.2, 0.3, confidenceScore) are in hundredths.*)
(*   The text a generation call returns is a sequence of tokens: "{", "}", *)
(*   " ", "p" (any prose character) and the name of a JSON member list of  *)
(*   the table Bodies.                                                     *)
(***************************************************************************)
EXTENDS Integers, Sequences, FiniteSets, TLC

VARIABLES
    items,          \* InMemoryVectorStore.items
    lastBatch,      \* argument of the last addDocuments call
    itemsBefore,    \* items when the last addDocuments call began
    pc,             \* position of the queryRag invocation
    question,       \* queryRag: const question (trimmed)
    topK,           \* queryRag: const topK
    queryEmbedding, \* queryRag: const queryEmbedding
    searched,       \* the store contents similaritySearch read for this invocation
    retrieved,      \* queryRag: const retrieved
    raw1,           \* queryRag: const raw1
    raw2,           \* queryRag: const raw2
    embedCalls,     \* embedding calls issued by this invocation
    genCalls,       \* generation calls issued by this invocation, in order
    replies,        \* how the collaborator calls of this invocation settled, in order
    result,         \* the value queryRag returned (when pc = "returned")
    err,            \* the error queryRag threw (when pc = "thrown")
    search,         \* the last direct similaritySearch call: arguments and returned array
    chunker,        \* one text on its way through the chunker: input, options, chunks
    ingest,         \* the ingestText invocations: arguments, position, locals, outcome
    route           \* the route handlers, the seeded flag and the document registry

vars == <<items, lastBatch, itemsBefore, pc, question, topK,
          queryEmbedding, searched, retrieved, raw1, raw2, embedCalls,
          genCalls, replies, result, err, search, chunker,
          ingest, route>>

storeVars == <<items, lastBatch, itemsBefore>>
queryVars == <<pc, question, topK, queryEmbedding, searched, retrieved, raw1,
               raw2, embedCalls, genCalls, replies, result, err>>
\* the variables of the other entry points, untouched by the store and by queryRag
auxVars == <<search, chunker, ingest>>

-----------------------------------------------------------------------------
(* Bounds of the model. *)

\* Largest number of chunks the store is grown to.
MaxItems == 2
\* Largest batch handed to one addDocuments call.
MaxBatch == 2
\* Largest store a direct similaritySearch call is tried on.
MaxSearchItems == 3
\* Largest number of text blocks an input text of the chunker is made of.
MaxBlocks == 5

-----------------------------------------------------------------------------
(* Program constants. *)

DEFAULT_TOP_K == 5
\* 0.2, in hundredths
MIN_RELEVANCE_SCORE == 20
\* 0.3, in hundredths
LOW_CONFIDENCE_THRESHOLD == 30
MAX_EXCERPT_CHARS == 1200
DEFAULT_MAX_TOKENS_PER_CHUNK == 500
\* estimateTokens: characters per token
CHARS_PER_TOKEN == 4
\* splitByChars: the smallest slice width
MIN_SLICE_CHARS == 16
\* the query route
MAX_QUERY_CHARS == 4000
MAX_TOP_K == 20

\* The IEEE value NaN, as an element of an embedding.
NaN == 1000000

-----------------------------------------------------------------------------
(* Strings. *)

NUL == "NUL"
\* white space of String.prototype.trim and of \s
IsSpace(c) == c \in {" ", "\n", "\r", "\t"}

RECURSIVE TrimStart(_)
TrimStart(s) ==
    IF s = <<>> THEN <<>>
    ELSE IF IsSpace(Head(s)) THEN TrimStart(Tail(s)) ELSE s

RECURSIVE TrimEnd(_)
TrimEnd(s) ==
    IF s = <<>> THEN <<>>
    ELSE IF IsSpace(s[Len(s)]) THEN TrimEnd(SubSeq(s, 1, Len(s) - 1)) ELSE s

\* String.prototype.trim
Trim(s) == TrimEnd(TrimStart(s))

\* String.prototype.slice(from, to), zero-based, 0 <= from
Slice(s, from, to) ==
    SubSeq(s, from + 1, IF to > Len(s) THEN Len(s) ELSE to)

\* String.prototype.indexOf(c): zero-based, -1 when absent
IndexOf(s, c) ==
    IF \E i \in 1..Len(s) : s[i] = c
    THEN (CHOOSE i \in 1..Len(s) : s[i] = c /\ \A j \in 1..(i - 1) : s[j] # c) - 1
    ELSE -1

\* String.prototype.lastIndexOf(c): zero-based, -1 when absent
LastIndexOf(s, c) ==
    IF \E i \in 1..Len(s) : s[i] = c
    THEN (CHOOSE i \in 1..Len(s) : s[i] = c /\ \A j \in (i + 1)..Len(s) : s[j] # c) - 1
    ELSE -1

\* t occurs in s as a contiguous run of characters
IsSubstring(t, s) ==
    \E i \in 0..Len(s) : i + Len(t) <= Len(s) /\ SubSeq(s, i + 1, i + Len(t)) = t

-----------------------------------------------------------------------------
(* InMemoryVectorStore *)

IsNaN(x) == x = NaN

RECURSIVE SumSquares(_)
SumSquares(v) ==
    IF v = <<>> THEN 0 ELSE Head(v) * Head(v) + SumSquares(Tail(v))

HasNaN(v) == \E i \in 1..Len(v) : IsNaN(v[i])

\* normalize: null for a zero vector; a vector whose squared magnitude is NaN
\* is not === 0, so it is kept and every component of the result is NaN.
NormalizeIsNull(v) == ~HasNaN(v) /\ SumSquares(v) = 0
Normalize(v) ==
    [nan |-> HasNaN(v), v |-> v, n2 |-> IF HasNaN(v) THEN 1 ELSE SumSquares(v)]

Min(a, b) == IF a <= b THEN a ELSE b

RECURSIVE DotPrefix(_, _, _)
DotPrefix(a, b, n) ==
    IF n = 0 THEN 0 ELSE a[n] * b[n] + DotPrefix(a, b, n - 1)

\* cosineSimilarityNormalized: dot product over the first min(lenA, lenB)
\* components of two unit vectors
CosineSimilarityNormalized(a, b) ==
    IF a.nan \/ b.nan
    THEN [nan |-> TRUE, num |-> 0, den2 |-> 1]
    ELSE [nan |-> FALSE,
          num |-> DotPrefix(a.v, b.v, Min(Len(a.v), Len(b.v))),
          den2 |-> a.n2 * b.n2]

\* Number.isFinite(score)
IsFinite(s) == ~s.nan

Sign(n) == IF n > 0 THEN 1 ELSE IF n < 0 THEN -1 ELSE 0

\* sign of (x.score - y.score) for finite scores
ScoreCmp(x, y) ==
    Sign(Sign(x.num) * x.num * x.num * y.den2 - Sign(y.num) * y.num * y.num * x.den2)

\* score >= h/100, for h >= 0
ScoreAtLeast(s, h) ==
    /\ ~s.nan
    /\ s.num >= 0
    /\ 10000 * s.num * s.num >= h * h * s.den2

\* the loop of similaritySearch (lines 63-77): one ScoredResult per stored
\* chunk that can be normalized, in store order
RECURSIVE ScoreAll(_, _)
ScoreAll(its, nq) ==
    IF its = <<>> THEN <<>>
    ELSE LET item == Head(its)
             rest == ScoreAll(Tail(its), nq)
         IN  IF NormalizeIsNull(item.embedding) THEN rest
             ELSE <<[score |-> CosineSimilarityNormalized(nq, Normalize(item.embedding)),
                     metadata |-> item.metadata]>> \o rest

\* comparator of the sort (line 79): b.score - a.score; NaN when either is NaN
\* CmpDesc(a, b) < 0 when a is to come before b
CmpDesc(a, b) == ScoreCmp(b.score, a.score)

RECURSIVE InsertSorted(_, _)
InsertSorted(sorted, x) ==
    IF sorted = <<>> THEN <<x>>
    ELSE LET last == sorted[Len(sorted)]
         IN  IF CmpDesc(x, last) < 0
             THEN InsertSorted(SubSeq(sorted, 1, Len(sorted) - 1), x) \o <<last>>
             ELSE Append(sorted, x)

RECURSIVE StableSortDesc(_)
StableSortDesc(s) ==
    IF s = <<>> THEN <<>>
    ELSE InsertSorted(StableSortDesc(SubSeq(s, 1, Len(s) - 1)), s[Len(s)])

SeqPermutations(s) ==
    { [i \in 1..Len(s) |-> s[f[i]]] :
        f \in { g \in [1..Len(s) -> 1..Len(s)] :
                  \A i, j \in 1..Len(s) : i # j => g[i] # g[j] } }

\* Array.prototype.sort with the comparator of line 79.  The sort is stable
\* and the comparator is consistent when every score is finite; with a NaN
\* score the comparator is inconsistent and the resulting order is
\* implementation-defined: any permutation.
SortOutcomes(scored) ==
    IF \E i \in 1..Len(scored) : scored[i].score.nan
    THEN SeqPermutations(scored)
    ELSE {StableSortDesc(scored)}

\* a faulty variant of TopKCut: line 85 alone, without the test of line 81
TopKCut_AlwaysSlices(sorted, k) ==
    SubSeq(sorted, 1, IF k < 0 THEN 0 ELSE IF k < Len(sorted) THEN k ELSE Len(sorted))

\* lines 81-85
TopKCut(sorted, k) ==
    IF k <= 0 \/ k >= Len(sorted) THEN sorted ELSE SubSeq(sorted, 1, k)

\* similaritySearch(queryEmbedding, topK): the set of arrays it may return
SimilaritySearch(its, q, k) ==
    IF Len(q) = 0 THEN {<<>>}
    ELSE IF NormalizeIsNull(q) THEN {<<>>}
    ELSE { TopKCut(sorted, k) : sorted \in SortOutcomes(ScoreAll(its, Normalize(q))) }

\* a faulty variant of ItemsAfterSearch: the chunks that cannot be normalized are
\* removed from this.items by the search
ItemsAfterSearch_KeepsScorable(its, q, k) ==
    SelectSeq(its, LAMBDA item : ~NormalizeIsNull(item.embedding))

\* what similaritySearch leaves in this.items: it only reads them
ItemsAfterSearch(its, q, k) == its

\* the test of line 35, negated
EmbeddingAccepted(chunk) == chunk.isArray /\ Len(chunk.embedding) # 0

\* a faulty variant of AddDocumentsLoop: break instead of continue at line 38
RECURSIVE AddDocumentsLoop_StopsAtInvalid(_, _)
AddDocumentsLoop_StopsAtInvalid(its, chunks) ==
    IF chunks = <<>> THEN its
    ELSE IF EmbeddingAccepted(Head(chunks))
         THEN AddDocumentsLoop_StopsAtInvalid(Append(its, Head(chunks)), Tail(chunks))
         ELSE its

\* a faulty variant of AddDocumentsLoop: a chunk takes the place of the stored
\* chunk with its document name and label
RECURSIVE AddDocumentsLoop_ReplacesSameLabel(_, _)
AddDocumentsLoop_ReplacesSameLabel(its, chunks) ==
    IF chunks = <<>> THEN its
    ELSE AddDocumentsLoop_ReplacesSameLabel(
            IF EmbeddingAccepted(Head(chunks))
            THEN Append(SelectSeq(its, LAMBDA item :
                            \/ item.metadata.name # Head(chunks).metadata.name
                            \/ item.metadata.pageOrSection #
                                  Head(chunks).metadata.pageOrSection),
                        Head(chunks))
            ELSE its,
            Tail(chunks))

\* addDocuments (lines 29-42): the loop over the batch
RECURSIVE AddDocumentsLoop(_, _)
AddDocumentsLoop(its, chunks) ==
    IF chunks = <<>> THEN its
    ELSE AddDocumentsLoop(
            IF EmbeddingAccepted(Head(chunks)) THEN Append(its, Head(chunks)) ELSE its,
            Tail(chunks))

AddDocumentsResult(its, chunks) ==
    IF Len(chunks) = 0 THEN its ELSE AddDocumentsLoop(its, chunks)

-----------------------------------------------------------------------------
(* JSON values and the text of a completion. *)

Str(x) == [t |-> "string", v |-> x]
Num(x) == [t |-> "number", v |-> x]
Arr(x) == [t |-> "array", v |-> x]
Obj(x) == [t |-> "object", v |-> x]

SourceDoc(name, pageOrSection, excerpt) ==
    Obj([name |-> Str(name), pageOrSection |-> Str(pageOrSection),
         excerpt |-> Str(excerpt)])

\* The member lists a completion may carry between its braces.
Bodies ==
    [ ok90    |-> [answer |-> Str("A"),
                   sourceDocuments |-> Arr(<<SourceDoc("doc1", "chunk 1", <<"a", "b">>)>>),
                   confidenceScore |-> Num(90),
                   recommendation |-> Str("R")],
      ok30    |-> [answer |-> Str("A"),
                   sourceDocuments |-> Arr(<<>>),
                   confidenceScore |-> Num(30),
                   recommendation |-> Str("R")],
      ok29    |-> [answer |-> Str("A"),
                   sourceDocuments |-> Arr(<<SourceDoc("doc1", "chunk 1", <<"a", "b">>)>>),
                   confidenceScore |-> Num(29),
                   recommendation |-> Str("R")],
      fab     |-> [answer |-> Str("A"),
                   sourceDocuments |-> Arr(<<SourceDoc("doc9", "p. 1", <<"z">>)>>),
                   confidenceScore |-> Num(100),
                   recommendation |-> Str("R")],
      extra   |-> [answer |-> Str("A"),
                   sourceDocuments |-> Arr(<<>>),
                   confidenceScore |-> Num(90),
                   recommendation |-> Str("R"),
                   debug |-> Str("x")],
      conf101 |-> [answer |-> Str("A"),
                   sourceDocuments |-> Arr(<<>>),
                   confidenceScore |-> Num(101),
                   recommendation |-> Str("R")],
      badtype |-> [answer |-> Str("A"),
                   sourceDocuments |-> Arr(<<>>),
                   confidenceScore |-> Str("high"),
                   recommendation |-> Str("R")],
      missing |-> [answer |-> Str("A"),
                   sourceDocuments |-> Arr(<<>>),
                   confidenceScore |-> Num(90)] ]

BodyNames == DOMAIN Bodies

\* JSON.parse of a text that begins with "{" and ends with "}": an object
\* when the braces enclose one well-formed member list (or nothing), and a
\* SyntaxError otherwise.
JsonParse(text) ==
    LET inner == Trim(SubSeq(text, 2, Len(text) - 1))
    IN  IF Len(text) >= 2 /\ text[1] = "{" /\ text[Len(text)] = "}"
        THEN IF inner = <<>>
             THEN [ok |-> TRUE, members |-> <<>>]
             ELSE IF Len(inner) = 1 /\ inner[1] \in BodyNames
                  THEN [ok |-> TRUE, members |-> Bodies[inner[1]]]
                  ELSE [ok |-> FALSE, members |-> <<>>]
        ELSE [ok |-> FALSE, members |-> <<>>]

\* extractJsonObject: ok = FALSE when it throws
ExtractJsonObject(text) ==
    LET trimmed == Trim(text)
        start == IndexOf(trimmed, "{")
        end == LastIndexOf(trimmed, "}")
    IN  IF Len(trimmed) >= 1 /\ trimmed[1] = "{" /\ trimmed[Len(trimmed)] = "}"
        THEN JsonParse(trimmed)
        ELSE IF start = -1 \/ end = -1 \/ end <= start
             THEN [ok |-> FALSE, members |-> <<>>]
             ELSE JsonParse(Slice(trimmed, start, end + 1))

-----------------------------------------------------------------------------
(* ragResponseSchema *)

HasString(m, k) == k \in DOMAIN m /\ m[k].t = "string"

\* ragSourceDocumentSchema accepts d
SourceDocumentAccepted(d) ==
    /\ d.t = "object"
    /\ HasString(d.v, "name")
    /\ HasString(d.v, "pageOrSection")
    /\ HasString(d.v, "excerpt")

\* ragResponseSchema.parse(obj) does not throw: z.object checks the listed
\* keys and lets any other key through (it is stripped from the output)
SchemaAccepts(m) ==
    /\ HasString(m, "answer")
    /\ "sourceDocuments" \in DOMAIN m
    /\ m.sourceDocuments.t = "array"
    /\ \A i \in 1..Len(m.sourceDocuments.v) : SourceDocumentAccepted(m.sourceDocuments.v[i])
    /\ "confidenceScore" \in DOMAIN m
    /\ m.confidenceScore.t = "number"
    /\ m.confidenceScore.v >= 0
    /\ m.confidenceScore.v <= 100
    /\ HasString(m, "recommendation")

\* the value ragResponseSchema.parse returns for an accepted object
SchemaOutput(m) ==
    [answer |-> m.answer.v,
     sourceDocuments |->
        [i \in 1..Len(m.sourceDocuments.v) |->
            [name |-> m.sourceDocuments.v[i].v.name.v,
             pageOrSection |-> m.sourceDocuments.v[i].v.pageOrSection.v,
             excerpt |-> m.sourceDocuments.v[i].v.excerpt.v]],
     confidenceScore |-> m.confidenceScore.v,
     recommendation |-> m.recommendation.v]

-----------------------------------------------------------------------------
(* Inputs. *)

Chunk(isArray, embedding, name, pageOrSection, text) ==
    [isArray |-> isArray, embedding |-> embedding,
     metadata |-> [name |-> name, pageOrSection |-> pageOrSection, text |-> text]]

\* chunks a caller may hand to addDocuments
ChunkA == Chunk(TRUE, <<1, 0>>, "doc1", "chunk 1", <<"a", "b">>)
ChunkB == Chunk(TRUE, <<1, 5>>, "doc1", "chunk 2", <<" ", "c", NUL, "d">>)
ChunkZero == Chunk(TRUE, <<0, 0>>, "doc2", "chunk 1", <<"e">>)
ChunkNaN == Chunk(TRUE, <<NaN, 1>>, "doc2", "chunk 2", <<"f">>)
ChunkEmpty == Chunk(TRUE, <<>>, "doc3", "chunk 1", <<"g">>)
ChunkMissing == Chunk(FALSE, <<>>, "doc3", "chunk 2", <<"h">>)

ChunkCatalogue == {ChunkA, ChunkB, ChunkZero, ChunkNaN, ChunkEmpty, ChunkMissing}

SeqsUpTo(S, n) == UNION { [1..k -> S] : k \in 0..n }

Batches == SeqsUpTo(ChunkCatalogue, MaxBatch)

\* chunks ingested one at a time while queries run
IngestedChunks == {ChunkA, ChunkB, ChunkZero, ChunkNaN}

\* params.question
Questions == { <<>>, <<" ">>, <<" ", "q", " ">> }

\* params.topK: {} when it is undefined
TopKParams == { {}, {0}, {1}, {2} }

\* what the embedding collaborator answers
EmbeddingOutcomes ==
    { [ok |-> FALSE, error |-> "embedding failed", embedding |-> <<>>] }
    \cup { [ok |-> TRUE, error |-> "", embedding |-> v] :
             v \in { <<>>, <<0, 0>>, <<1, 0>>, <<3, 4>> } }

\* texts a completion may carry
Contents ==
    { <<>>,
      <<"p">>,
      <<"}", "p", "{">>,
      <<"{", "p", "}">>,
      <<" ", "{", "ok90", "}", " ">>,
      <<"p", " ", "{", "ok90", "}", "p">>,
      <<"{", "ok30", "}">>,
      <<"{", "ok29", "}">>,
      <<"{", "fab", "}">>,
      <<"{", "extra", "}">>,
      <<"{", "conf101", "}">>,
      <<"{", "badtype", "}">>,
      <<"{", "missing", "}">> }

\* what the generation collaborator answers: a failure (transport, auth,
\* quota, no completion choice), a null content, or a text
GenerationOutcomes ==
    { [ok |-> FALSE, error |-> e, isNull |-> FALSE, content |-> <<>>] :
        e \in {"generation failed", "no completion choice"} }
    \cup { [ok |-> TRUE, error |-> "", isNull |-> TRUE, content |-> <<>>] }
    \cup { [ok |-> TRUE, error |-> "", isNull |-> FALSE, content |-> c] : c \in Contents }

\* callRagModel, line 111-112
CompletionText(o) == Trim(IF o.isNull THEN <<>> ELSE o.content)

\* no text handed to the chunker
NoChunking ==
    [called |-> FALSE, text |-> <<>>, maxTokensPerChunk |-> DEFAULT_MAX_TOKENS_PER_CHUNK,
     preferParagraphBoundaries |-> TRUE, raw |-> <<>>, chunks |-> <<>>]

\* the pieces input texts are made of: a letter, two words, the end of a
\* sentence, a blank line, a CRLF line break
TextBlocks ==
    { <<"a">>,
      <<"b", "c", "d", "e", " ", "f", "g", "h", "i">>,
      <<".", " ">>,
      <<"\n", "\n">>,
      <<"\r", "\n">> }

RECURSIVE Flatten(_)
Flatten(ss) == IF ss = <<>> THEN <<>> ELSE Head(ss) \o Flatten(Tail(ss))

Texts == { Flatten(blocks) : blocks \in SeqsUpTo(TextBlocks, MaxBlocks) }
TokenLimits == {0, 1, 3, 4, 5}

\* the ingestText invocations followed
IngestCalls == {1, 2}

\* an ingestText invocation not yet made
NoIngest ==
    [pc |-> "idle", documentName |-> <<>>, sectionLabel |-> {}, text |-> <<>>,
     maxTokensPerChunk |-> DEFAULT_MAX_TOKENS_PER_CHUNK,
     preferParagraphBoundaries |-> TRUE,
     chunkTexts |-> <<>>, chunks |-> <<>>, embedCalls |-> 0,
     chunksAdded |-> 0, err |-> ""]

\* IngestTextParams: an absent sectionLabel is {}, a given one {label}
DocumentNames == { <<" ">>, <<" ", "d">> }
SectionLabels == { {}, {<<" ">>}, {<<"S">>}, {<<" ", "S">>} }
IngestTexts ==
    { <<" ", "\r", "\n">>,
      <<"a">>,
      <<"a", ".", " ", "b", "c", "d", "e", "\r", "\n", "\r", "\n",
        "b", "c", "d", "e", " ", "f", "g", "h", "i">> }
IngestParams ==
    [documentName : DocumentNames, text : IngestTexts, sectionLabel : SectionLabels]

\* IngestTextOptions: an absent option is {}
IngestOptions ==
    [maxTokensPerChunk : { {}, {1}, {3} }, preferParagraphBoundaries : { {} }]

\* how an embedText call of ingestText settles
IngestEmbeddingOutcomes ==
    { o \in EmbeddingOutcomes : ~o.ok \/ o.embedding \in { <<>>, <<1, 0>> } }

\* the route handlers followed; handler h runs its ingestText as invocation h
Handlers == IngestCalls

NoRequest ==
    [kind |-> "none", malformed |-> FALSE, query |-> <<>>, topK |-> {},
     documentName |-> <<>>, text |-> <<>>, sectionLabel |-> {}]

\* a handler before its request arrives
NoHandler ==
    [pc |-> "idle", request |-> NoRequest, status |-> 0, externalCalls |-> 0,
     seedDoc |-> 0, seedChunks |-> <<>>]

\* globalThis.__ragDefaultsSeeded unset, globalThis.__ragDocuments empty
NoRoute ==
    [seeded |-> FALSE, documents |-> {}, handlers |-> [h \in Handlers |-> NoHandler]]

\* a question one character over the limit of the query route
LongQuery == [i \in 1..(MAX_QUERY_CHARS + 1) |-> "q"]

\* a text one character too long for one chunk at the default limit
LongText == [i \in 1..(DEFAULT_MAX_TOKENS_PER_CHUNK * CHARS_PER_TOKEN + 1) |-> "a"]

\* the requests that arrive: GET /api/documents, POST /api/query,
\* POST /api/ingest, and a POST whose body is not JSON
RouteRequests ==
    { [NoRequest EXCEPT !.kind = "documents"],
      [NoRequest EXCEPT !.kind = "query", !.malformed = TRUE] }
    \cup { [NoRequest EXCEPT !.kind = "query", !.query = q] :
              q \in { <<" ">>, <<" ", "q", " ">>, LongQuery } }
    \cup { [NoRequest EXCEPT !.kind = "ingest", !.documentName = n, !.text = t] :
              n \in DocumentNames, t \in { <<>>, <<"a">>, LongText } }

\* the three documents of seedVectorStoreOnce, each with a name, a text of
\* one chunk at the default limit (as the 673, 432 and 375 characters of the
\* source are) and the label "Default", here one letter each
DefaultDocuments ==
    << [documentName |-> <<"W">>, text |-> <<"w">>, sectionLabel |-> {<<"D">>}],
       [documentName |-> <<"X">>, text |-> <<"x">>, sectionLabel |-> {<<"D">>}],
       [documentName |-> <<"T">>, text |-> <<"t">>, sectionLabel |-> {<<"D">>}] >>

\* how the collaborator calls made under a route handler settle
RouteEmbeddingOutcomes ==
    { o \in EmbeddingOutcomes : ~o.ok \/ o.embedding = <<1, 0>> }
RouteGenerationOutcomes ==
    { o \in GenerationOutcomes :
        \/ o.error = "generation failed"
        \/ o.ok /\ ~o.isNull /\ o.content \in { <<"p">>, <<"{", "ok90", "}">>,
                                                  <<"{", "badtype", "}">> } }

\* no direct similaritySearch call made yet
NoSearch == [called |-> FALSE, queryEmbedding |-> <<>>, topK |-> 0, result |-> <<>>]

NoResponse ==
    [answer |-> "", sourceDocuments |-> <<>>, confidenceScore |-> 0, recommendation |-> ""]

-----------------------------------------------------------------------------
(* queryRag: pure parts *)

RemoveNul(text) == SelectSeq(text, LAMBDA c : c # NUL)

SanitizeExcerpt(text) ==
    LET cleaned == Trim(RemoveNul(text))
    IN  IF Len(cleaned) <= MAX_EXCERPT_CHARS THEN cleaned
        ELSE Trim(Slice(cleaned, 0, MAX_EXCERPT_CHARS))

InsufficientInformationResponse ==
    [answer |-> "Insufficient information based on the provided documents.",
     sourceDocuments |-> <<>>,
     confidenceScore |-> 0,
     recommendation |-> "Provide or ingest additional documents that explicitly cover this question (policy, contract, spec, or relevant section)."]

\* a faulty variant of RelevanceFilter: the floor is not applied
RelevanceFilter_FiniteOnly(found) == SelectSeq(found, LAMBDA r : IsFinite(r.score))

\* the filter of line 135
RelevanceFilter(found) ==
    SelectSeq(found, LAMBDA r : IsFinite(r.score) /\ ScoreAtLeast(r.score, MIN_RELEVANCE_SCORE))

\* lines 142-146
Excerpts(rs) ==
    [i \in 1..Len(rs) |->
        [name |-> rs[i].metadata.name,
         pageOrSection |-> rs[i].metadata.pageOrSection,
         excerpt |-> SanitizeExcerpt(rs[i].metadata.text)]]

\* buildRagUserPrompt, and the repair prompt appended to it on attempt 2
UserPrompt(q, rs) == [question |-> q, excerpts |-> Excerpts(rs)]
GenerationCall(q, rs, isRepair, invalid) ==
    [userPrompt |-> UserPrompt(q, rs), isRepair |-> isRepair, invalid |-> invalid]

\* the try block of lines 158-164 (and lines 182-187): ok = FALSE when
\* extractJsonObject or ragResponseSchema.parse throws
ParseAndValidate(raw) ==
    LET ex == ExtractJsonObject(raw)
    IN  IF ~ex.ok THEN [ok |-> FALSE, error |-> "SyntaxError", validated |-> InsufficientInformationResponse]
        ELSE IF ~SchemaAccepts(ex.members)
             THEN [ok |-> FALSE, error |-> "ZodError", validated |-> InsufficientInformationResponse]
             ELSE [ok |-> TRUE, error |-> "", validated |-> SchemaOutput(ex.members)]

\* a faulty variant of NoEvidence: the early return of lines 137-140 is never taken
NoEvidence_Never(rs) == FALSE

\* line 137
NoEvidence(rs) == Len(rs) = 0

\* a faulty variant of Attempt1Decision: a low confidence is treated as an invalid
\* output and repaired
Attempt1Decision_RepairsLowConfidence(o) ==
    IF ~o.ok THEN "throw"
    ELSE IF /\ ParseAndValidate(CompletionText(o)).ok
            /\ ParseAndValidate(CompletionText(o)).validated.confidenceScore
                  >= LOW_CONFIDENCE_THRESHOLD
         THEN "return" ELSE "repair"

\* a faulty variant of Attempt1Decision: the first call is made inside the try block,
\* so a failed call is answered by the repair attempt
Attempt1Decision_RetriesFailedCall(o) ==
    IF o.ok /\ ParseAndValidate(CompletionText(o)).ok THEN "return" ELSE "repair"

\* lines 152-165: what follows the first generation call: "throw" when the
\* call itself fails (it is made outside the try block), "return" when its
\* text parses and validates, "repair" when the try block throws
Attempt1Decision(o) ==
    IF ~o.ok THEN "throw"
    ELSE IF ParseAndValidate(CompletionText(o)).ok THEN "return" ELSE "repair"

\* a faulty variant of Attempt2Parsed: the second attempt looks at raw1 again
Attempt2Parsed_Raw1(r1, r2) == ParseAndValidate(r1)

\* lines 182-183: the text the second attempt parses and validates
Attempt2Parsed(r1, r2) == ParseAndValidate(r2)

\* a faulty variant of ConfidenceGate: no gating
ConfidenceGate_Off(validated) == validated

\* lines 161-164 (and 184-187)
ConfidenceGate(validated) ==
    IF validated.confidenceScore < LOW_CONFIDENCE_THRESHOLD
    THEN InsufficientInformationResponse
    ELSE validated

-----------------------------------------------------------------------------
(* The chunker of ingestText (src/unnamed/part_003). *)

Max(a, b) == IF a >= b THEN a ELSE b
SetMax(S) == CHOOSE x \in S : \A y \in S : y <= x
SetMin(S) == CHOOSE x \in S : \A y \in S : x <= y

\* text.replace(/\r\n/g, "\n"): every "\r" that a "\n" follows is removed
NormalizeCrlf(s) ==
    LET marked == [i \in 1..Len(s) |->
                     [char |-> s[i],
                      replaced |-> s[i] = "\r" /\ i < Len(s) /\ s[i + 1] = "\n"]]
        kept == SelectSeq(marked, LAMBDA m : ~m.replaced)
    IN  [i \in 1..Len(kept) |-> kept[i].char]

\* Math.ceil(text.length / 4)
EstimateTokens(s) == (Len(s) + CHARS_PER_TOKEN - 1) \div CHARS_PER_TOKEN

\* .map(p => p.trim()).filter(Boolean)
NonEmptyTrimmed(pieces) ==
    SelectSeq([i \in 1..Len(pieces) |-> Trim(pieces[i])], LAMBDA piece : piece # <<>>)

\* last index of the longest run of white space that starts at index i
\* (i - 1 when s[i] is not white space)
WhitespaceRunEnd(s, i) ==
    SetMax({ e \in (i - 1)..Len(s) : \A k \in i..e : IsSpace(s[k]) })

\* a faulty variant of ParagraphBreakEnd: the pattern /\n\s*/, which breaks
\* paragraphs at every newline
ParagraphBreakEnd_AnyNewline(s, i) ==
    IF s[i] # "\n" THEN 0 ELSE WhitespaceRunEnd(s, i + 1)

\* /\n\s*\n+/ matched at index i: the index of its last character, 0 for no
\* match.  The greedy \s* takes the whole run of white space and gives back
\* characters until \n+ can take one newline: the match ends at the last
\* newline of the run.
ParagraphBreakEnd(s, i) ==
    IF s[i] # "\n" THEN 0
    ELSE LET newlines == { j \in (i + 1)..WhitespaceRunEnd(s, i + 1) : s[j] = "\n" }
         IN  IF newlines = {} THEN 0 ELSE SetMax(newlines)

\* text.split(/\n\s*\n+/g)
RECURSIVE SplitAtParagraphBreaks(_)
SplitAtParagraphBreaks(s) ==
    LET starts == { i \in 1..Len(s) : ParagraphBreakEnd(s, i) # 0 }
    IN  IF starts = {} THEN <<s>>
        ELSE <<SubSeq(s, 1, SetMin(starts) - 1)>> \o
             SplitAtParagraphBreaks(
                SubSeq(s, ParagraphBreakEnd(s, SetMin(starts)) + 1, Len(s)))

SplitIntoParagraphs(text) == NonEmptyTrimmed(SplitAtParagraphBreaks(text))

SentenceEnders == {".", "!", "?"}

\* text.split(/(?<=[.!?])\s+/g): a run of white space right after . ! or ?
RECURSIVE SplitAtSentenceBreaks(_)
SplitAtSentenceBreaks(s) ==
    LET starts == { i \in 2..Len(s) : IsSpace(s[i]) /\ s[i - 1] \in SentenceEnders }
    IN  IF starts = {} THEN <<s>>
        ELSE <<SubSeq(s, 1, SetMin(starts) - 1)>> \o
             SplitAtSentenceBreaks(
                SubSeq(s, WhitespaceRunEnd(s, SetMin(starts)) + 1, Len(s)))

SplitIntoSentences(text) == NonEmptyTrimmed(SplitAtSentenceBreaks(text))

\* a faulty variant of CharSlices: the last, shorter slice is not pushed
RECURSIVE CharSlices_FullSlicesOnly(_, _)
CharSlices_FullSlicesOnly(text, maxChars) ==
    IF Len(text) < maxChars THEN <<>>
    ELSE <<SubSeq(text, 1, maxChars)>> \o
         CharSlices_FullSlicesOnly(SubSeq(text, maxChars + 1, Len(text)), maxChars)

\* the while loop of splitByChars, before the trim of each slice
RECURSIVE CharSlices(_, _)
CharSlices(text, maxChars) ==
    IF text = <<>> THEN <<>>
    ELSE <<SubSeq(text, 1, Min(Len(text), maxChars))>> \o
         CharSlices(SubSeq(text, Min(Len(text), maxChars) + 1, Len(text)), maxChars)

\* a faulty variant of SplitByChars: slices of five characters per token
SplitByChars_FiveCharsPerToken(text, maxTokensPerChunk) ==
    NonEmptyTrimmed(CharSlices(text, Max(MIN_SLICE_CHARS, maxTokensPerChunk * 5)))

\* splitByChars, lines 240-256
SplitByChars(text, maxTokensPerChunk) ==
    NonEmptyTrimmed(CharSlices(text, Max(MIN_SLICE_CHARS, maxTokensPerChunk * CHARS_PER_TOKEN)))

\* the closure flush of chunkText and of splitLongText
Flush(acc) ==
    [chunks |-> IF Trim(acc.buffer) # <<>> THEN Append(acc.chunks, Trim(acc.buffer))
                ELSE acc.chunks,
     buffer |-> <<>>]

\* one sentence that does not join the buffer: lines 208-213 and 221-225
SentencePlaced(acc, sentence, maxTokens) ==
    IF EstimateTokens(sentence) <= maxTokens
    THEN [chunks |-> acc.chunks, buffer |-> sentence]
    ELSE [chunks |-> acc.chunks \o SplitByChars(sentence, maxTokens), buffer |-> acc.buffer]

\* the body of the loop of splitLongText
SentenceStep(acc, s, maxTokens) ==
    LET sentence == Trim(s)
        candidate == acc.buffer \o <<" ">> \o sentence
    IN  IF sentence = <<>> THEN acc
        ELSE IF acc.buffer = <<>> THEN SentencePlaced(acc, sentence, maxTokens)
        ELSE IF EstimateTokens(candidate) <= maxTokens
             THEN [chunks |-> acc.chunks, buffer |-> candidate]
             ELSE SentencePlaced(Flush(acc), sentence, maxTokens)

RECURSIVE SentenceLoop(_, _, _)
SentenceLoop(acc, sentences, maxTokens) ==
    IF sentences = <<>> THEN acc
    ELSE SentenceLoop(SentenceStep(acc, Head(sentences), maxTokens), Tail(sentences), maxTokens)

SplitLongText(text, maxTokensPerChunk) ==
    IF Len(SplitIntoSentences(text)) <= 1
    THEN SplitByChars(text, maxTokensPerChunk)
    ELSE Flush(SentenceLoop([chunks |-> <<>>, buffer |-> <<>>],
                            SplitIntoSentences(text),
                            Max(1, maxTokensPerChunk))).chunks

\* lines 127-135: the long paragraph met with an empty buffer
RECURSIVE ResplitPieces(_, _)
ResplitPieces(pieces, maxTokens) ==
    IF pieces = <<>> THEN <<>>
    ELSE (IF EstimateTokens(Head(pieces)) <= maxTokens
          THEN <<Head(pieces)>>
          ELSE SplitByChars(Head(pieces), maxTokens))
         \o ResplitPieces(Tail(pieces), maxTokens)

\* a faulty variant of ParagraphStep: a paragraph that fits the limit joins
\* the buffer without the test of line 140
ParagraphStep_AlwaysJoins(acc, p, maxTokens, preferParagraphBoundaries) ==
    IF Trim(p) = <<>> THEN acc
    ELSE IF EstimateTokens(Trim(p)) <= maxTokens
    THEN [chunks |-> acc.chunks,
          buffer |-> IF acc.buffer = <<>> THEN Trim(p)
                     ELSE acc.buffer \o <<"\n", "\n">> \o Trim(p)]
    ELSE [chunks |-> Flush(acc).chunks \o SplitLongText(Trim(p), maxTokens),
          buffer |-> <<>>]

\* the body of the loop of chunkText, lines 114-160
ParagraphStep(acc, p, maxTokens, preferParagraphBoundaries) ==
    LET paragraph == Trim(p)
        candidate == acc.buffer \o <<"\n", "\n">> \o paragraph
    IN  IF paragraph = <<>> THEN acc
        ELSE IF acc.buffer = <<>>
        THEN IF EstimateTokens(paragraph) <= maxTokens
             THEN [chunks |-> acc.chunks, buffer |-> paragraph]
             ELSE [chunks |-> acc.chunks \o
                              ResplitPieces(SplitLongText(paragraph, maxTokens), maxTokens),
                   buffer |-> acc.buffer]
        ELSE IF EstimateTokens(candidate) <= maxTokens
        THEN [chunks |-> acc.chunks, buffer |-> candidate]
        ELSE IF EstimateTokens(paragraph) <= maxTokens
        THEN [chunks |-> Flush(acc).chunks, buffer |-> paragraph]
        ELSE IF preferParagraphBoundaries
        THEN [chunks |-> Flush(acc).chunks \o SplitLongText(paragraph, maxTokens),
              buffer |-> <<>>]
        ELSE [chunks |-> Flush(acc).chunks \o SplitByChars(paragraph, maxTokens),
              buffer |-> <<>>]

RECURSIVE ParagraphLoop(_, _, _, _)
ParagraphLoop(acc, paragraphs, maxTokens, preferParagraphBoundaries) ==
    IF paragraphs = <<>> THEN acc
    ELSE ParagraphLoop(
            ParagraphStep(acc, Head(paragraphs), maxTokens, preferParagraphBoundaries),
            Tail(paragraphs), maxTokens, preferParagraphBoundaries)

\* chunkText(text, config), lines 93-164
ChunkText(text, maxTokensPerChunk, preferParagraphBoundaries) ==
    Flush(ParagraphLoop([chunks |-> <<>>, buffer |-> <<>>],
                        SplitIntoParagraphs(text),
                        Max(1, maxTokensPerChunk),
                        preferParagraphBoundaries)).chunks

-----------------------------------------------------------------------------
(* State machine. *)

Init ==
    /\ items = <<>>
    /\ lastBatch = <<>>
    /\ itemsBefore = <<>>
    /\ pc = "idle"
    /\ question = <<>>
    /\ topK = DEFAULT_TOP_K
    /\ queryEmbedding = <<>>
    /\ searched = <<>>
    /\ retrieved = <<>>
    /\ raw1 = <<>>
    /\ raw2 = <<>>
    /\ embedCalls = 0
    /\ genCalls = <<>>
    /\ replies = <<>>
    /\ result = NoResponse
    /\ err = ""
    /\ search = NoSearch
    /\ chunker = NoChunking
    /\ ingest = [p \in IngestCalls |-> NoIngest]
    /\ route = NoRoute

Reply(call, o) == [call |-> call, ok |-> o.ok, error |-> o.error]

\* InMemoryVectorStore.addDocuments(chunks)
AddDocuments(chunks) ==
    /\ Len(AddDocumentsResult(items, chunks)) <= MaxItems
    /\ items' = AddDocumentsResult(items, chunks)
    /\ lastBatch' = chunks
    /\ itemsBefore' = items
    /\ UNCHANGED <<queryVars, auxVars>>

\* queryRag, lines 124-132: up to the await of embedText
QueryRagCall(q, k) ==
    /\ pc \in {"idle", "returned", "thrown"}
    /\ question' = Trim(q)
    /\ topK' = IF k = {} THEN DEFAULT_TOP_K ELSE CHOOSE n \in k : TRUE
    /\ queryEmbedding' = <<>>
    /\ searched' = <<>>
    /\ retrieved' = <<>>
    /\ raw1' = <<>>
    /\ raw2' = <<>>
    /\ genCalls' = <<>>
    /\ replies' = <<>>
    /\ result' = NoResponse
    /\ IF Len(Trim(q)) = 0
       THEN /\ pc' = "thrown"
            /\ err' = "queryRag: question must be non-empty"
            /\ embedCalls' = 0
       ELSE /\ pc' = "embedding"
            /\ err' = ""
            /\ embedCalls' = 1
    /\ UNCHANGED <<storeVars, auxVars>>

\* queryRag, lines 132-156: embedText settles; retrieval, the relevance
\* filter, and either the canned response or the first generation call
EmbeddingSettles(o) ==
    /\ pc = "embedding"
    /\ replies' = Append(replies, Reply("embed", o))
    /\ IF ~o.ok
       THEN /\ pc' = "thrown"
            /\ err' = o.error
            /\ UNCHANGED <<queryEmbedding, searched, retrieved, genCalls, result, items>>
       ELSE \E found \in SimilaritySearch(items, o.embedding, topK) :
            /\ queryEmbedding' = o.embedding
            /\ searched' = items
            /\ items' = ItemsAfterSearch(items, o.embedding, topK)
            /\ retrieved' = RelevanceFilter(found)
            /\ IF NoEvidence(RelevanceFilter(found))
               THEN /\ pc' = "returned"
                    /\ result' = InsufficientInformationResponse
                    /\ UNCHANGED genCalls
               ELSE /\ pc' = "attempt1"
                    /\ genCalls' = <<GenerationCall(question, RelevanceFilter(found), FALSE, <<>>)>>
                    /\ UNCHANGED result
            /\ UNCHANGED err
    /\ UNCHANGED <<lastBatch, itemsBefore, question, topK, raw1, raw2, embedCalls, auxVars>>

\* queryRag, lines 152-180: the first generation call settles
Attempt1Settles(o) ==
    /\ pc = "attempt1"
    /\ replies' = Append(replies, Reply("generate", o))
    /\ raw1' = IF o.ok THEN CompletionText(o) ELSE raw1
    /\ CASE Attempt1Decision(o) = "throw" ->
              /\ pc' = "thrown"
              /\ err' = o.error
              /\ UNCHANGED <<genCalls, result>>
         [] Attempt1Decision(o) = "return" ->
              /\ pc' = "returned"
              /\ result' = ConfidenceGate(ParseAndValidate(CompletionText(o)).validated)
              /\ UNCHANGED <<genCalls, err>>
         [] Attempt1Decision(o) = "repair" ->
              /\ pc' = "attempt2"
              /\ genCalls' = Append(genCalls,
                    GenerationCall(question, retrieved, TRUE, CompletionText(o)))
              /\ UNCHANGED <<result, err>>
    /\ UNCHANGED <<storeVars, question, topK, queryEmbedding, searched, retrieved,
                   raw2, embedCalls, auxVars>>

\* a faulty variant of Attempt2Settles: after a second invalid output the
\* invocation starts over from the embedding of the question
Attempt2Settles_StartsOver(o) ==
    /\ pc = "attempt2"
    /\ IF ~o.ok
       THEN /\ pc' = "thrown"
            /\ err' = o.error
            /\ replies' = Append(replies, Reply("generate", o))
            /\ UNCHANGED <<raw1, raw2, result, queryEmbedding, searched, retrieved, genCalls>>
       ELSE IF Attempt2Parsed(raw1, CompletionText(o)).ok
       THEN /\ pc' = "returned"
            /\ raw2' = CompletionText(o)
            /\ result' = ConfidenceGate(Attempt2Parsed(raw1, CompletionText(o)).validated)
            /\ replies' = Append(replies, Reply("generate", o))
            /\ UNCHANGED <<raw1, err, queryEmbedding, searched, retrieved, genCalls>>
       ELSE /\ pc' = "embedding"
            /\ queryEmbedding' = <<>>
            /\ searched' = <<>>
            /\ retrieved' = <<>>
            /\ raw1' = <<>>
            /\ raw2' = <<>>
            /\ genCalls' = <<>>
            /\ replies' = <<>>
            /\ UNCHANGED <<result, err>>
    /\ UNCHANGED <<storeVars, question, topK, embedCalls, auxVars>>

\* queryRag, lines 176-188: the repair generation call settles
Attempt2Settles(o) ==
    /\ pc = "attempt2"
    /\ replies' = Append(replies, Reply("generate", o))
    /\ IF ~o.ok
       THEN /\ pc' = "thrown"
            /\ err' = o.error
            /\ UNCHANGED <<raw2, result>>
       ELSE /\ raw2' = CompletionText(o)
            /\ IF Attempt2Parsed(raw1, CompletionText(o)).ok
               THEN /\ pc' = "returned"
                    /\ result' = ConfidenceGate(Attempt2Parsed(raw1, CompletionText(o)).validated)
                    /\ UNCHANGED err
               ELSE /\ pc' = "thrown"
                    /\ err' = Attempt2Parsed(raw1, CompletionText(o)).error
                    /\ UNCHANGED result
    /\ UNCHANGED <<storeVars, question, topK, queryEmbedding, searched, retrieved,
                   raw1, embedCalls, genCalls, auxVars>>

Next ==
    \/ \E c \in IngestedChunks : AddDocuments(<<c>>) /\ UNCHANGED route
    \/ \E q \in Questions, k \in TopKParams : QueryRagCall(q, k) /\ UNCHANGED route
    \/ \E o \in EmbeddingOutcomes : EmbeddingSettles(o) /\ UNCHANGED route
    \/ \E o \in GenerationOutcomes : Attempt1Settles(o) /\ UNCHANGED route
    \/ \E o \in GenerationOutcomes : Attempt2Settles(o) /\ UNCHANGED route

Spec == Init /\ [][Next]_vars

\* every collaborator call eventually returns or fails: each await of
\* queryRag eventually resumes
FairSpec ==
    /\ Spec
    /\ WF_vars(\E o \in EmbeddingOutcomes : EmbeddingSettles(o) /\ UNCHANGED route)
    /\ WF_vars(\E o \in GenerationOutcomes : Attempt1Settles(o) /\ UNCHANGED route)
    /\ WF_vars(\E o \in GenerationOutcomes : Attempt2Settles(o) /\ UNCHANGED route)

\* the store on its own: any batches, no query in flight
NextStore == \E chunks \in Batches : AddDocuments(chunks) /\ UNCHANGED route

SpecStore == Init /\ [][NextStore]_vars

-----------------------------------------------------------------------------
(* InMemoryVectorStore.similaritySearch called directly. *)

\* a chunk of another dimensionality, and a second chunk with ChunkA's embedding
ChunkShort == Chunk(TRUE, <<1>>, "doc4", "chunk 1", <<"i">>)
ChunkDup == Chunk(TRUE, <<1, 0>>, "doc4", "chunk 2", <<"j">>)
ChunkOpposite == Chunk(TRUE, <<-1, 0>>, "doc4", "chunk 3", <<"k">>)

\* the chunks addDocuments keeps (line 35)
StoredChunks == {ChunkA, ChunkB, ChunkZero, ChunkNaN, ChunkShort, ChunkDup, ChunkOpposite}
SearchQueries == {<<>>, <<0, 0>>, <<1, 0>>, <<3, 4>>, <<NaN, 1>>}
SearchTopKs == {-1, 0, 1, 2, 3, 4}

\* a store as addDocuments calls leave it
InitSearch ==
    /\ items \in SeqsUpTo(StoredChunks, MaxSearchItems)
    /\ lastBatch = <<>>
    /\ itemsBefore = <<>>
    /\ pc = "idle"
    /\ question = <<>>
    /\ topK = DEFAULT_TOP_K
    /\ queryEmbedding = <<>>
    /\ searched = <<>>
    /\ retrieved = <<>>
    /\ raw1 = <<>>
    /\ raw2 = <<>>
    /\ embedCalls = 0
    /\ genCalls = <<>>
    /\ replies = <<>>
    /\ result = NoResponse
    /\ err = ""
    /\ search = NoSearch
    /\ chunker = NoChunking
    /\ ingest = [p \in IngestCalls |-> NoIngest]
    /\ route = NoRoute

\* similaritySearch(queryEmbedding, topK), lines 50-86.  One call is followed
\* per behaviour: a call leaves the store as it found it.
SimilaritySearchCall(q, k) ==
    /\ ~search.called
    /\ \E found \in SimilaritySearch(items, q, k) :
          search' = [called |-> TRUE, queryEmbedding |-> q, topK |-> k, result |-> found]
    /\ items' = ItemsAfterSearch(items, q, k)
    /\ UNCHANGED <<lastBatch, itemsBefore, queryVars, chunker, ingest, route>>

NextSearch == \E q \in SearchQueries, k \in SearchTopKs : SimilaritySearchCall(q, k)

SpecSearch == InitSearch /\ [][NextSearch]_vars

-----------------------------------------------------------------------------
(* Properties. *)

Canned ==
    [answer |-> "Insufficient information based on the provided documents.",
     sourceDocuments |-> <<>>,
     confidenceScore |-> 0,
     recommendation |-> "Provide or ingest additional documents that explicitly cover this question (policy, contract, spec, or relevant section)."]

\* the embedding call of this invocation returned a vector, so retrieval ran
EmbeddingSucceeded == Len(replies) >= 1 /\ replies[1].ok

\* cosine(q, e) is a finite number >= 0.2, from the definition of the cosine:
\* dot/(|q||e|) >= 1/5  iff  dot >= 0 and 25 dot^2 >= |q|^2 |e|^2
ClearsFloor(q, e) ==
    /\ q # <<>> /\ e # <<>>
    /\ ~HasNaN(q) /\ ~HasNaN(e)
    /\ SumSquares(q) > 0 /\ SumSquares(e) > 0
    /\ LET dot == DotPrefix(q, e, Min(Len(q), Len(e)))
       IN  dot >= 0 /\ 25 * dot * dot >= SumSquares(q) * SumSquares(e)

NothingClearsFloor ==
    \A i \in 1..Len(searched) : ~ClearsFloor(queryEmbedding, searched[i].embedding)

\* C1: when the retrieved set is empty after the relevance filter (empty
\* index, zero-magnitude or empty query embedding, no score >= 0.2), queryRag
\* returns the fixed InsufficientInformation response and has made no
\* generation call.
C1_NoEvidenceNoGeneration ==
    EmbeddingSucceeded =>
        /\ NothingClearsFloor => retrieved = <<>>
        /\ retrieved = <<>> =>
              /\ pc = "returned"
              /\ result = Canned
              /\ result.sourceDocuments = <<>> /\ result.confidenceScore = 0
              /\ genCalls = <<>>
              /\ Len(replies) = 1

C1_Witness ==
    /\ pc = "returned" /\ EmbeddingSucceeded
    /\ searched = <<ChunkB>> /\ queryEmbedding = <<1, 0>>
    /\ retrieved = <<>> /\ result = Canned

\* C2: at most two generation calls per invocation; the second is made only
\* after the first returned a text that failed extraction or validation; when
\* the second text fails too the invocation ends in an error, with no third
\* call.
C2_AtMostOneRepair ==
    /\ Len(genCalls) <= 2
    /\ Len(replies) <= 3
    /\ Len(genCalls) = 2 =>
          /\ Len(replies) >= 2 /\ replies[2].ok
          /\ ~ParseAndValidate(raw1).ok
    /\ (Len(replies) = 3 /\ replies[3].ok /\ ~ParseAndValidate(raw2).ok) =>
          /\ pc = "thrown"
          /\ err \in {"SyntaxError", "ZodError"}
          /\ Len(genCalls) = 2

C2_Witness ==
    /\ pc = "thrown" /\ Len(genCalls) = 2
    /\ Len(replies) = 3 /\ replies[3].ok
    /\ ~ParseAndValidate(raw2).ok

LowConfidence(raw) ==
    /\ ParseAndValidate(raw).ok
    /\ ParseAndValidate(raw).validated.confidenceScore < 30

\* C3: on both attempts a schema-valid response with confidenceScore < 0.3 is
\* replaced by the canned response; every returned response is the canned one
\* or has confidenceScore in [0.3, 1]; confidenceScore is always in [0, 1].
C3_ConfidenceGating ==
    pc = "returned" =>
        /\ result.confidenceScore >= 0 /\ result.confidenceScore <= 100
        /\ result = Canned \/ result.confidenceScore >= 30
        /\ (Len(replies) = 2 /\ LowConfidence(raw1)) => result = Canned
        /\ (Len(replies) = 3 /\ LowConfidence(raw2)) => result = Canned

C3_Witness ==
    /\ pc = "returned" /\ Len(replies) = 3
    /\ LowConfidence(raw2) /\ result = Canned

\* C4: when the embedding call or a generation call itself fails, queryRag
\* throws that error: the failed call is the last call made, and nothing is
\* returned.
C4_CollaboratorFailurePropagates ==
    \A i \in 1..Len(replies) :
        ~replies[i].ok =>
            /\ i = Len(replies)
            /\ pc = "thrown"
            /\ err = replies[i].error
            /\ embedCalls + Len(genCalls) = i
            /\ result = NoResponse

C4_Witness ==
    /\ pc = "thrown" /\ Len(replies) = 2 /\ ~replies[2].ok
    /\ Len(genCalls) = 1 /\ err = "generation failed"

RepairPath ==
    /\ Len(replies) = 3 /\ replies[2].ok /\ replies[3].ok
    /\ ~ExtractJsonObject(raw1).ok
    /\ ParseAndValidate(raw2).ok

\* C5 as stated: first attempt non-JSON, second attempt valid JSON: exactly
\* two generation calls, and the second attempt's object is returned.
C5_SecondResultReturned ==
    RepairPath =>
        /\ pc = "returned"
        /\ Len(genCalls) = 2
        /\ result = ParseAndValidate(raw2).validated

\* C5 as amended: first attempt non-JSON, second attempt valid JSON: exactly
\* two generation calls; the second attempt's object is returned when its
\* confidenceScore is >= 0.3, and the canned response when it is below.
C5_SecondResultReturnedOrGated ==
    RepairPath =>
        /\ pc = "returned"
        /\ Len(genCalls) = 2
        /\ result = IF ParseAndValidate(raw2).validated.confidenceScore >= 30
                    THEN ParseAndValidate(raw2).validated
                    ELSE Canned

C5_Witness ==
    /\ RepairPath /\ pc = "returned"
    /\ raw1 = <<"p">>
    /\ result = ParseAndValidate(raw2).validated /\ result # Canned

ResponseKeys == {"answer", "sourceDocuments", "confidenceScore", "recommendation"}
SourceDocumentKeys == {"name", "pageOrSection", "excerpt"}

\* the object has exactly the fields of the response schema, rightly typed
ExactResponseShape(m) ==
    /\ DOMAIN m = ResponseKeys
    /\ m.answer.t = "string" /\ m.recommendation.t = "string"
    /\ m.confidenceScore.t = "number"
    /\ m.confidenceScore.v >= 0 /\ m.confidenceScore.v <= 100
    /\ m.sourceDocuments.t = "array"
    /\ \A i \in 1..Len(m.sourceDocuments.v) :
          /\ m.sourceDocuments.v[i].t = "object"
          /\ DOMAIN m.sourceDocuments.v[i].v = SourceDocumentKeys
          /\ \A k \in SourceDocumentKeys : m.sourceDocuments.v[i].v[k].t = "string"

\* C6: an attempt-1 object that is not exactly of the response shape (extra
\* key, wrong type, confidenceScore outside [0,1]) triggers the repair attempt
\* and is not returned.
C6_StrictFieldSet ==
    (/\ Len(replies) >= 2 /\ replies[2].ok
     /\ ExtractJsonObject(raw1).ok
     /\ ~ExactResponseShape(ExtractJsonObject(raw1).members))
    => Len(genCalls) = 2

\* C7: every excerpt of a returned response is a verbatim substring of the
\* text of some chunk of the index.
C7_ExcerptsVerbatim ==
    pc = "returned" =>
        \A i \in 1..Len(result.sourceDocuments) :
            \E j \in 1..Len(items) :
                IsSubstring(result.sourceDocuments[i].excerpt, items[j].metadata.text)

\* C8: every result used as evidence has a finite score >= 0.2; for topK >= 1
\* at most topK results are used; the prompt carries exactly the retained
\* results; when no stored chunk clears the floor the evidence is empty and
\* the invocation returns (no error).
C8_EvidenceAboveFloor ==
    EmbeddingSucceeded =>
        /\ \A i \in 1..Len(retrieved) :
              /\ ~retrieved[i].score.nan
              /\ retrieved[i].score.num > 0
              /\ 25 * retrieved[i].score.num * retrieved[i].score.num
                    >= retrieved[i].score.den2
              /\ \E j \in 1..Len(searched) :
                    /\ searched[j].metadata = retrieved[i].metadata
                    /\ ClearsFloor(queryEmbedding, searched[j].embedding)
        /\ topK >= 1 => Len(retrieved) <= topK
        /\ genCalls # <<>> =>
              /\ Len(genCalls[1].userPrompt.excerpts) = Len(retrieved)
              /\ \A i \in 1..Len(retrieved) :
                    /\ genCalls[1].userPrompt.excerpts[i].name = retrieved[i].metadata.name
                    /\ genCalls[1].userPrompt.excerpts[i].pageOrSection
                          = retrieved[i].metadata.pageOrSection
        /\ NothingClearsFloor =>
              /\ retrieved = <<>> /\ pc = "returned" /\ err = ""

C8_Witness ==
    /\ pc = "attempt1" /\ topK = 1
    /\ searched = <<ChunkA, ChunkB>> /\ queryEmbedding = <<3, 4>>
    /\ Len(retrieved) = 1 /\ retrieved[1].metadata = ChunkB.metadata

\* C9: no step of queryRag changes the index, on any path.
C9_QueryLeavesIndexUnchanged ==
    [][queryVars' # queryVars => items' = items]_vars

C9_Witness ==
    /\ pc = "returned" /\ Len(genCalls) = 2
    /\ searched = <<ChunkZero, ChunkA>> /\ items = searched

\* C10: addDocuments(batch) leaves the old index followed by exactly the
\* batch chunks whose embedding is a non-empty array, in batch order; the
\* others are dropped and do not stop the insertion of the rest.
C10_AddDocumentsAppendsAccepted ==
    items = itemsBefore \o
            SelectSeq(lastBatch, LAMBDA c : c.isArray /\ c.embedding # <<>>)

C10_Witness ==
    /\ lastBatch = <<ChunkMissing, ChunkA>>
    /\ itemsBefore = <<ChunkB>>
    /\ items = <<ChunkB, ChunkA>>

-----------------------------------------------------------------------------
(* The chunker on its own: ingestText lines 54-66 with chunkText. *)

InitChunk ==
    /\ items = <<>>
    /\ lastBatch = <<>>
    /\ itemsBefore = <<>>
    /\ pc = "idle"
    /\ question = <<>>
    /\ topK = DEFAULT_TOP_K
    /\ queryEmbedding = <<>>
    /\ searched = <<>>
    /\ retrieved = <<>>
    /\ raw1 = <<>>
    /\ raw2 = <<>>
    /\ embedCalls = 0
    /\ genCalls = <<>>
    /\ replies = <<>>
    /\ result = NoResponse
    /\ err = ""
    /\ search = NoSearch
    /\ ingest = [p \in IngestCalls |-> NoIngest]
    /\ route = NoRoute
    /\ \E text \in Texts, maxTokensPerChunk \in TokenLimits, prefer \in BOOLEAN :
          chunker = [called |-> FALSE, text |-> text,
                     maxTokensPerChunk |-> maxTokensPerChunk,
                     preferParagraphBoundaries |-> prefer,
                     raw |-> <<>>, chunks |-> <<>>]

\* lines 54-66: normalise and trim the text, chunk it unless it is empty
ChunkTextCall ==
    /\ ~chunker.called
    /\ chunker' = [chunker EXCEPT
            !.called = TRUE,
            !.raw = Trim(NormalizeCrlf(chunker.text)),
            !.chunks = IF Trim(NormalizeCrlf(chunker.text)) = <<>> THEN <<>>
                       ELSE ChunkText(Trim(NormalizeCrlf(chunker.text)),
                                      chunker.maxTokensPerChunk,
                                      chunker.preferParagraphBoundaries)]
    /\ UNCHANGED <<storeVars, queryVars, search, ingest, route>>

NextChunk == ChunkTextCall

SpecChunk == InitChunk /\ [][NextChunk]_vars

-----------------------------------------------------------------------------
(* ingestText (src/unnamed/part_003, lines 44-91). *)

Digits == <<"0", "1", "2", "3", "4", "5", "6", "7", "8", "9">>

\* the decimal numeral a template literal renders a positive integer as
RECURSIVE Decimal(_)
Decimal(n) ==
    IF n < 10 THEN <<Digits[n + 1]>>
    ELSE Decimal(n \div 10) \o <<Digits[(n % 10) + 1]>>

\* a faulty variant of PageOrSection: the ordinal is the zero-based index
PageOrSection_ZeroBased(sectionLabel, i) ==
    LET pageOrSectionPrefix ==
            IF sectionLabel = {} THEN <<>> ELSE Trim(CHOOSE l \in sectionLabel : TRUE)
    IN  IF pageOrSectionPrefix # <<>>
        THEN pageOrSectionPrefix \o <<" ", "(", "c", "h", "u", "n", "k", " ">>
                \o Decimal(i - 1) \o <<")">>
        ELSE <<"c", "h", "u", "n", "k", " ">> \o Decimal(i - 1)

\* lines 75-78, for the chunk at index i - 1
PageOrSection(sectionLabel, i) ==
    LET pageOrSectionPrefix ==
            IF sectionLabel = {} THEN <<>> ELSE Trim(CHOOSE l \in sectionLabel : TRUE)
    IN  IF pageOrSectionPrefix # <<>>
        THEN pageOrSectionPrefix \o <<" ", "(", "c", "h", "u", "n", "k", " ">>
                \o Decimal(i) \o <<")">>
        ELSE <<"c", "h", "u", "n", "k", " ">> \o Decimal(i)

OptionOr(option, default) == IF option = {} THEN default ELSE CHOOSE x \in option : TRUE

\* a faulty variant of IngestEntry: without the test of lines 50-52
IngestEntry_NoNameTest(documentName, raw) ==
    IF raw = <<>> THEN "return" ELSE "chunk"

\* lines 49-57: the two early exits of ingestText
IngestEntry(documentName, raw) ==
    IF documentName = <<>> THEN "throw"
    ELSE IF raw = <<>> THEN "return"
    ELSE "chunk"

\* ingestText, lines 44-73: up to the await of the first embedText
IngestTextCall(p, params, options) ==
    LET documentName == Trim(params.documentName)
        raw == Trim(NormalizeCrlf(params.text))
        maxTokensPerChunk == OptionOr(options.maxTokensPerChunk, DEFAULT_MAX_TOKENS_PER_CHUNK)
        preferParagraphBoundaries == OptionOr(options.preferParagraphBoundaries, TRUE)
        chunkTexts == ChunkText(raw, maxTokensPerChunk, preferParagraphBoundaries)
        called == [NoIngest EXCEPT !.documentName = documentName,
                                   !.sectionLabel = params.sectionLabel,
                                   !.text = params.text,
                                   !.maxTokensPerChunk = maxTokensPerChunk,
                                   !.preferParagraphBoundaries = preferParagraphBoundaries]
    IN  /\ ingest[p].pc = "idle"
        /\ IF IngestEntry(documentName, raw) = "throw"
           THEN /\ ingest' = [ingest EXCEPT ![p] =
                        [called EXCEPT !.pc = "thrown",
                                       !.err = "ingestText: documentName must be non-empty"]]
                /\ UNCHANGED storeVars
           ELSE IF IngestEntry(documentName, raw) = "return"
           THEN /\ ingest' = [ingest EXCEPT ![p] = [called EXCEPT !.pc = "returned"]]
                /\ UNCHANGED storeVars
           ELSE IF chunkTexts = <<>>
           THEN /\ ingest' = [ingest EXCEPT ![p] = [called EXCEPT !.pc = "returned"]]
                /\ items' = AddDocumentsResult(items, <<>>)
                /\ lastBatch' = <<>>
                /\ itemsBefore' = items
           ELSE /\ ingest' = [ingest EXCEPT ![p] =
                        [called EXCEPT !.pc = "embedding",
                                       !.chunkTexts = chunkTexts,
                                       !.embedCalls = 1]]
                /\ UNCHANGED storeVars
        /\ UNCHANGED <<queryVars, search, chunker>>

\* a faulty variant of IngestEmbeddingSettles: every chunk is added to the
\* store as soon as it is embedded
IngestEmbeddingSettles_AddsEachChunk(p, o) ==
    LET me == ingest[p]
        i == Len(me.chunks) + 1
        chunk == Chunk(TRUE, o.embedding, me.documentName,
                       PageOrSection(me.sectionLabel, i), me.chunkTexts[i])
    IN  /\ me.pc = "embedding"
        /\ IF ~o.ok
           THEN /\ ingest' = [ingest EXCEPT ![p].pc = "thrown", ![p].err = o.error]
                /\ UNCHANGED storeVars
           ELSE /\ ingest' =
                      IF i < Len(me.chunkTexts)
                      THEN [ingest EXCEPT ![p].chunks = Append(me.chunks, chunk),
                                          ![p].embedCalls = me.embedCalls + 1]
                      ELSE [ingest EXCEPT ![p].chunks = Append(me.chunks, chunk),
                                          ![p].pc = "returned",
                                          ![p].chunksAdded = Len(me.chunks) + 1]
                /\ items' = AddDocumentsResult(items, <<chunk>>)
                /\ lastBatch' = <<chunk>>
                /\ itemsBefore' = items
        /\ UNCHANGED <<queryVars, search, chunker>>

\* ingestText, lines 73-90: an embedText call settles; the chunk is pushed and
\* either the next embedText call is made or the batch is added and the
\* count returned
IngestEmbeddingSettles(p, o) ==
    LET me == ingest[p]
        i == Len(me.chunks) + 1
        chunks == Append(me.chunks,
                         Chunk(TRUE, o.embedding, me.documentName,
                               PageOrSection(me.sectionLabel, i), me.chunkTexts[i]))
    IN  /\ me.pc = "embedding"
        /\ IF ~o.ok
           THEN /\ ingest' = [ingest EXCEPT ![p].pc = "thrown", ![p].err = o.error]
                /\ UNCHANGED storeVars
           ELSE IF i < Len(me.chunkTexts)
           THEN /\ ingest' = [ingest EXCEPT ![p].chunks = chunks,
                                            ![p].embedCalls = me.embedCalls + 1]
                /\ UNCHANGED storeVars
           ELSE /\ ingest' = [ingest EXCEPT ![p].chunks = chunks,
                                            ![p].pc = "returned",
                                            ![p].chunksAdded = Len(chunks)]
                /\ items' = AddDocumentsResult(items, chunks)
                /\ lastBatch' = chunks
                /\ itemsBefore' = items
        /\ UNCHANGED <<queryVars, search, chunker>>

NextIngest ==
    \/ \E p \in IngestCalls, params \in IngestParams, options \in IngestOptions :
          IngestTextCall(p, params, options) /\ UNCHANGED route
    \/ \E p \in IngestCalls, o \in IngestEmbeddingOutcomes :
          IngestEmbeddingSettles(p, o) /\ UNCHANGED route

SpecIngest == Init /\ [][NextIngest]_vars

\* ingestText invocations interleaved with queryRag invocations: every await
\* of either is a point where the other may run.  The ingestions are those
\* of one document name without a section label.
QueryIngestParams ==
    { params \in IngestParams :
        params.documentName = <<" ", "d">> /\ params.sectionLabel = {} }

NextIngestQuery ==
    \/ \E p \in IngestCalls, params \in QueryIngestParams, options \in IngestOptions :
          IngestTextCall(p, params, options) /\ UNCHANGED route
    \/ \E p \in IngestCalls, o \in IngestEmbeddingOutcomes :
          IngestEmbeddingSettles(p, o) /\ UNCHANGED route
    \/ QueryRagCall(<<"q">>, {}) /\ UNCHANGED route
    \/ \E o \in RouteEmbeddingOutcomes : EmbeddingSettles(o) /\ UNCHANGED route
    \/ \E o \in RouteGenerationOutcomes : Attempt1Settles(o) /\ UNCHANGED route
    \/ \E o \in RouteGenerationOutcomes : Attempt2Settles(o) /\ UNCHANGED route

SpecIngestQuery == Init /\ [][NextIngestQuery]_vars

-----------------------------------------------------------------------------
(* The route handlers (src/src/app/api) and seedVectorStoreOnce            *)
(* (src/src/lib/regState.ts) with the registry of src/src/lib/ragState.ts. *)

\* upsertDocument: Map.set under the trimmed name
UpsertDocument(documents, name, text) ==
    { d \in documents : d.name # Trim(name) } \cup { [name |-> Trim(name), text |-> text] }

\* queryRequestSchema.parse succeeds
QueryRequestValid(req) ==
    /\ Len(Trim(req.query)) >= 1
    /\ Len(Trim(req.query)) <= MAX_QUERY_CHARS
    /\ \A k \in req.topK : k >= 1 /\ k <= MAX_TOP_K

\* ingestRequestSchema.parse succeeds
IngestRequestValid(req) ==
    /\ Len(Trim(req.documentName)) >= 1
    /\ Len(req.text) >= 1
    /\ \A l \in req.sectionLabel : Len(l) >= 1

\* the chunks ingestText cuts default document d into
SeedChunkTexts(d) ==
    ChunkText(Trim(NormalizeCrlf(DefaultDocuments[d].text)),
              DEFAULT_MAX_TOKENS_PER_CHUNK, TRUE)

\* regState.ts lines 58, 64, 73: ingestText of default document d runs to
\* the await of its first embedText
StartSeedDocument(me, d) ==
    [me EXCEPT !.pc = "seeding", !.seedDoc = d, !.seedChunks = <<>>,
               !.externalCalls = @ + 1]

\* a faulty variant of RequestArrives: the flag is tested and not set
RequestArrives_FlagNotSet(h, req) ==
    /\ route.handlers[h].pc = "idle"
    /\ route' =
          IF route.seeded
          THEN [route EXCEPT !.handlers[h] =
                    [NoHandler EXCEPT !.pc = "parse", !.request = req]]
          ELSE [route EXCEPT !.handlers[h] =
                    StartSeedDocument([NoHandler EXCEPT !.request = req], 1)]
    /\ UNCHANGED <<storeVars, queryVars, auxVars>>

\* a request reaches its handler, which runs seedVectorStoreOnce to its
\* first await: regState.ts lines 10-58 under route.ts line 22 (ingest
\* route line 21, documents route line 12)
RequestArrives(h, req) ==
    /\ route.handlers[h].pc = "idle"
    /\ route' =
          IF route.seeded
          THEN [route EXCEPT !.handlers[h] =
                    [NoHandler EXCEPT !.pc = "parse", !.request = req]]
          ELSE [route EXCEPT !.seeded = TRUE,
                             !.handlers[h] =
                    StartSeedDocument([NoHandler EXCEPT !.request = req], 1)]
    /\ UNCHANGED <<storeVars, queryVars, auxVars>>

\* an embedText call of the seeding settles: ingestText lines 73-90.  A
\* failure leaves seedVectorStoreOnce and is answered with status 500.
SeedEmbeddingSettles(h, o) ==
    LET me == route.handlers[h]
        doc == DefaultDocuments[me.seedDoc]
        i == Len(me.seedChunks) + 1
        chunks == Append(me.seedChunks,
                         Chunk(TRUE, o.embedding, Trim(doc.documentName),
                               PageOrSection(doc.sectionLabel, i),
                               SeedChunkTexts(me.seedDoc)[i]))
    IN  /\ me.pc = "seeding"
        /\ IF ~o.ok
           THEN /\ route' = [route EXCEPT !.handlers[h].pc = "responded",
                                          !.handlers[h].status = 500]
                /\ UNCHANGED storeVars
           ELSE IF i < Len(SeedChunkTexts(me.seedDoc))
           THEN /\ route' = [route EXCEPT !.handlers[h].seedChunks = chunks,
                                          !.handlers[h].externalCalls = @ + 1]
                /\ UNCHANGED storeVars
           ELSE /\ route' = [route EXCEPT !.handlers[h].seedChunks = chunks,
                                          !.handlers[h].pc = "seeded"]
                /\ items' = AddDocumentsResult(items, chunks)
                /\ lastBatch' = chunks
                /\ itemsBefore' = items
        /\ UNCHANGED <<queryVars, auxVars>>

\* the await of an ingestText of the seeding resumes: regState.ts lines
\* 63-64, 69-73 and 78
SeedIngestReturns(h) ==
    LET me == route.handlers[h]
        doc == DefaultDocuments[me.seedDoc]
    IN  /\ me.pc = "seeded"
        /\ route' = [route EXCEPT
                !.documents = UpsertDocument(@, doc.documentName, doc.text),
                !.handlers[h] =
                    IF me.seedDoc < Len(DefaultDocuments)
                    THEN StartSeedDocument(me, me.seedDoc + 1)
                    ELSE [me EXCEPT !.pc = "parse", !.seedChunks = <<>>]]
        /\ UNCHANGED <<storeVars, queryVars, auxVars>>

\* the status of the response to a body that does not start any work:
\* req.json() fails (500), schema.parse fails (400), GET /api/documents (200)
BodyStatus(req) ==
    IF req.kind = "documents" THEN 200
    ELSE IF req.malformed THEN 500
    ELSE IF req.kind = "query" /\ ~QueryRequestValid(req) THEN 400
    ELSE IF req.kind = "ingest" /\ ~IngestRequestValid(req) THEN 400
    ELSE 0

\* route.ts lines 24-25 and 35-47, documents route lines 14-19
BodyAnswered(h) ==
    /\ route.handlers[h].pc = "parse"
    /\ BodyStatus(route.handlers[h].request) # 0
    /\ route' = [route EXCEPT !.handlers[h].pc = "responded",
                              !.handlers[h].status = BodyStatus(route.handlers[h].request)]
    /\ UNCHANGED <<storeVars, queryVars, auxVars>>

\* query route lines 24-27: the body is valid and queryRag runs to its
\* first await.  One queryRag invocation is followed at a time.
QueryStarts(h) ==
    LET req == route.handlers[h].request
    IN  /\ route.handlers[h].pc = "parse"
        /\ req.kind = "query" /\ BodyStatus(req) = 0
        /\ \A g \in Handlers : route.handlers[g].pc # "query"
        /\ QueryRagCall(Trim(req.query), req.topK)
        /\ route' = [route EXCEPT !.handlers[h].pc = "query"]

\* query route lines 27-47: the await of queryRag resumes.  A ZodError
\* thrown by queryRag is answered like one of the request schema.
QueryResponds(h) ==
    /\ route.handlers[h].pc = "query"
    /\ pc \in {"returned", "thrown"}
    /\ route' = [route EXCEPT
            !.handlers[h].pc = "responded",
            !.handlers[h].externalCalls = @ + embedCalls + Len(genCalls),
            !.handlers[h].status =
                IF pc = "returned" THEN 200 ELSE IF err = "ZodError" THEN 400 ELSE 500]
    /\ UNCHANGED <<storeVars, queryVars, auxVars>>

\* ingest route lines 23-31: the body is valid and ingestText runs to its
\* first await
IngestStarts(h) ==
    LET req == route.handlers[h].request
    IN  /\ route.handlers[h].pc = "parse"
        /\ req.kind = "ingest" /\ BodyStatus(req) = 0
        /\ IngestTextCall(h, [documentName |-> Trim(req.documentName),
                              text |-> req.text,
                              sectionLabel |-> req.sectionLabel],
                          [maxTokensPerChunk |-> {}, preferParagraphBoundaries |-> {}])
        /\ route' = [route EXCEPT !.handlers[h].pc = "ingest"]

\* a faulty variant of IngestResponds: the document is registered whether or
\* not ingestText has failed
IngestResponds_AlwaysUpserts(h) ==
    LET req == route.handlers[h].request
    IN  /\ route.handlers[h].pc = "ingest"
        /\ ingest[h].pc \in {"returned", "thrown"}
        /\ route' = [route EXCEPT
                !.documents = UpsertDocument(@, Trim(req.documentName), req.text),
                !.handlers[h].pc = "responded",
                !.handlers[h].externalCalls = @ + ingest[h].embedCalls,
                !.handlers[h].status = IF ingest[h].pc = "returned" THEN 200 ELSE 500]
        /\ UNCHANGED <<storeVars, queryVars, auxVars>>

\* ingest route lines 27-47: the await of ingestText resumes
IngestResponds(h) ==
    LET req == route.handlers[h].request
    IN  /\ route.handlers[h].pc = "ingest"
        /\ ingest[h].pc \in {"returned", "thrown"}
        /\ route' = [route EXCEPT
                !.documents = IF ingest[h].pc = "returned"
                              THEN UpsertDocument(@, Trim(req.documentName), req.text)
                              ELSE @,
                !.handlers[h].pc = "responded",
                !.handlers[h].externalCalls = @ + ingest[h].embedCalls,
                !.handlers[h].status = IF ingest[h].pc = "returned" THEN 200 ELSE 500]
        /\ UNCHANGED <<storeVars, queryVars, auxVars>>

NextRoute ==
    \/ \E h \in Handlers, req \in RouteRequests : RequestArrives(h, req)
    \/ \E h \in Handlers, o \in RouteEmbeddingOutcomes : SeedEmbeddingSettles(h, o)
    \/ \E h \in Handlers : SeedIngestReturns(h)
    \/ \E h \in Handlers : BodyAnswered(h)
    \/ \E h \in Handlers : QueryStarts(h)
    \/ \E o \in RouteEmbeddingOutcomes : EmbeddingSettles(o) /\ UNCHANGED route
    \/ \E o \in RouteGenerationOutcomes : Attempt1Settles(o) /\ UNCHANGED route
    \/ \E o \in RouteGenerationOutcomes : Attempt2Settles(o) /\ UNCHANGED route
    \/ \E h \in Handlers : QueryResponds(h)
    \/ \E h \in Handlers : IngestStarts(h)
    \/ \E h \in Handlers, o \in RouteEmbeddingOutcomes :
          IngestEmbeddingSettles(h, o) /\ UNCHANGED route
    \/ \E h \in Handlers : IngestResponds(h)

SpecRoute == Init /\ [][NextRoute]_vars

-----------------------------------------------------------------------------
(* Properties of similaritySearch called directly (SpecSearch). *)

\* the vector has a magnitude other than 0 (a NaN magnitude is not 0)
HasMagnitude(e) == HasNaN(e) \/ SumSquares(e) # 0

\* the stored chunks a search with query q gives a score to
ScoredIndexes(q) ==
    IF Len(q) = 0 \/ ~HasMagnitude(q) THEN {}
    ELSE { i \in 1..Len(items) : HasMagnitude(items[i].embedding) }

AllRequested == search.topK = 0 \/ search.topK >= Len(items)

\* C11 as stated: similaritySearch with topK = 0 or topK >= the number of
\* stored chunks returns one result per stored chunk.
C11_ResultPerStoredChunk ==
    (search.called /\ AllRequested) => Len(search.result) = Len(items)

\* C11, amended: similaritySearch with topK = 0 or topK >= the number of
\* stored chunks returns exactly one result per stored chunk whose embedding
\* has non-zero magnitude when the query embedding is non-empty and of
\* non-zero magnitude, and returns nothing otherwise.
C11_ResultPerScoredChunk ==
    (search.called /\ AllRequested) =>
        /\ Len(search.result) = Cardinality(ScoredIndexes(search.queryEmbedding))
        /\ \A i \in ScoredIndexes(search.queryEmbedding) :
              Cardinality({ j \in 1..Len(search.result) :
                              search.result[j].metadata = items[i].metadata })
              = Cardinality({ j \in ScoredIndexes(search.queryEmbedding) :
                              items[j].metadata = items[i].metadata })

C11_Witness ==
    /\ search.called /\ search.topK = 0
    /\ search.queryEmbedding = <<3, 4>>
    /\ items = <<ChunkA, ChunkZero, ChunkB>>
    /\ Len(search.result) = 2

\* x >= y as IEEE numbers: false when either is NaN
ScoreGE(x, y) == ~x.nan /\ ~y.nan /\ ScoreCmp(x, y) >= 0

NonIncreasing(r) == \A j \in 1..(Len(r) - 1) : ScoreGE(r[j].score, r[j + 1].score)

\* the score the cosine definition gives stored chunk i for query q
StoredScore(q, i) == CosineSimilarityNormalized(Normalize(q), Normalize(items[i].embedding))

\* C12: the array similaritySearch returns is non-increasing in score, and
\* for 1 <= topK < number of scored chunks it has exactly topK elements,
\* the j-th of which carries the j-th highest score of the store.
C12_SortedTopK ==
    search.called =>
        LET q == search.queryEmbedding
            r == search.result
        IN  /\ NonIncreasing(r)
            /\ (1 <= search.topK /\ search.topK < Cardinality(ScoredIndexes(q))) =>
                  /\ Len(r) = search.topK
                  /\ \A j \in 1..Len(r) :
                        /\ \E i \in ScoredIndexes(q) :
                              /\ items[i].metadata = r[j].metadata
                              /\ StoredScore(q, i) = r[j].score
                        /\ Cardinality({ i \in ScoredIndexes(q) :
                                          ~ScoreGE(r[j].score, StoredScore(q, i)) }) < j

UnitLength(q) == ~HasNaN(q) /\ SumSquares(q) = 1

ScoreIsOne(sc) == ~sc.nan /\ sc.num > 0 /\ sc.num * sc.num = sc.den2

\* C13: when the query is identical to a stored unit-length vector, the
\* first result is a stored item with that vector and has score 1.0,
\* whatever else is in the index.
C13_IdenticalVectorFirst ==
    (/\ search.called
     /\ UnitLength(search.queryEmbedding)
     /\ \E i \in 1..Len(items) : items[i].embedding = search.queryEmbedding) =>
        /\ search.result # <<>>
        /\ ScoreIsOne(search.result[1].score)
        /\ \E i \in 1..Len(items) :
              /\ items[i].embedding = search.queryEmbedding
              /\ items[i].metadata = search.result[1].metadata

-----------------------------------------------------------------------------
(* Properties of the chunker (SpecChunk). *)

\* ceil(len/4), from its definition
CeilQuarter(n) == CHOOSE t \in 0..n : 4 * t >= n /\ 4 * (t - 1) < n
TokensOf(s) == CeilQuarter(Len(s))

RECURSIVE JoinWithBlankLine(_)
JoinWithBlankLine(paragraphs) ==
    IF paragraphs = <<>> THEN <<>>
    ELSE IF Len(paragraphs) = 1 THEN paragraphs[1]
    ELSE paragraphs[1] \o <<"\n", "\n">> \o JoinWithBlankLine(Tail(paragraphs))

\* the paragraphs of the text the chunker was given
ParagraphsOfRaw == SplitIntoParagraphs(chunker.raw)

EachParagraphFits ==
    /\ ParagraphsOfRaw # <<>>
    /\ \A i \in 1..Len(ParagraphsOfRaw) :
          TokensOf(ParagraphsOfRaw[i]) <= chunker.maxTokensPerChunk

EachChunkFits ==
    \A i \in 1..Len(chunker.chunks) :
        TokensOf(chunker.chunks[i]) <= chunker.maxTokensPerChunk

\* C14 as stated: a text of paragraphs that each fit the limit, and that is
\* over the limit as a whole, comes back as at least 2 chunks, each within
\* the limit.
C14_TextOverLimitIsSplit ==
    (/\ chunker.called
     /\ EachParagraphFits
     /\ TokensOf(chunker.raw) > chunker.maxTokensPerChunk) =>
        Len(chunker.chunks) >= 2 /\ EachChunkFits

\* C14, amended: a text of paragraphs that each fit the limit, and whose
\* paragraphs joined by one blank line are over the limit, comes back as at
\* least 2 chunks, each within the limit.
C14_JoinedOverLimitIsSplit ==
    (/\ chunker.called
     /\ EachParagraphFits
     /\ TokensOf(JoinWithBlankLine(ParagraphsOfRaw)) > chunker.maxTokensPerChunk) =>
        Len(chunker.chunks) >= 2 /\ EachChunkFits

C14_Witness ==
    /\ chunker.called
    /\ chunker.maxTokensPerChunk = 3
    /\ chunker.raw = <<"b", "c", "d", "e", " ", "f", "g", "h", "i", "\n", "\n", "a",
                       "\n", "\n", "b", "c", "d", "e", " ", "f", "g", "h", "i">>
    /\ Len(chunker.chunks) = 2

\* C15 as stated: a non-empty text whose estimated token count is under the
\* limit comes back as exactly one chunk, equal to the trimmed,
\* CRLF-normalized text.
C15_SmallTextIsOneIdenticalChunk ==
    (/\ chunker.called
     /\ chunker.raw # <<>>
     /\ TokensOf(chunker.raw) < chunker.maxTokensPerChunk) =>
        chunker.chunks = <<chunker.raw>>

\* every run of white space of s that holds two or more newlines is "\n\n"
OnlyPlainBlankLines(s) ==
    \A i \in 1..Len(s), j \in 1..Len(s) :
        (/\ i <= j
         /\ \A k \in i..j : IsSpace(s[k])
         /\ (i = 1 \/ ~IsSpace(s[i - 1]))
         /\ (j = Len(s) \/ ~IsSpace(s[j + 1]))
         /\ Cardinality({ k \in i..j : s[k] = "\n" }) >= 2) => j = i + 1

\* C15, amended: a non-empty text whose estimated token count is within the
\* limit comes back as exactly one chunk: its paragraphs, each trimmed,
\* joined by one blank line "\n\n".  That chunk equals the trimmed,
\* CRLF-normalized text when every paragraph separator of the text is
\* exactly "\n\n".
C15_SmallTextIsOneJoinedChunk ==
    (/\ chunker.called
     /\ chunker.raw # <<>>
     /\ TokensOf(chunker.raw) <= chunker.maxTokensPerChunk) =>
        /\ chunker.chunks = <<JoinWithBlankLine(ParagraphsOfRaw)>>
        /\ OnlyPlainBlankLines(chunker.raw) => chunker.chunks = <<chunker.raw>>

C15_Witness ==
    /\ chunker.called
    /\ chunker.maxTokensPerChunk = 5
    /\ chunker.text = <<"a", "\n", "\n", "\r", "\n", "a", ".", " ">>
    /\ chunker.chunks = << <<"a", "\n", "\n", "a", ".">> >>

StripWhitespace(s) == SelectSeq(s, LAMBDA c : ~IsSpace(c))

\* C16: the chunks, concatenated in output order and stripped of white
\* space, are the input text stripped of white space.
C16_NoCharacterLost ==
    chunker.called =>
        StripWhitespace(Flatten(chunker.chunks)) = StripWhitespace(chunker.text)

C16_Witness ==
    /\ chunker.called
    /\ chunker.maxTokensPerChunk = 1
    /\ chunker.text = <<"b", "c", "d", "e", " ", "f", "g", "h", "i",
                        "b", "c", "d", "e", " ", "f", "g", "h", "i", ".", " ",
                        "\n", "\n", "a">>
    /\ Len(chunker.chunks) = 3

\* what the claim describes for preferParagraphBoundaries = false: a
\* paragraph over the limit is flushed to and sliced by splitByChars
CharOnlyStep(acc, paragraph, maxTokens) ==
    IF TokensOf(paragraph) > maxTokens
    THEN [chunks |-> Flush(acc).chunks \o SplitByChars(paragraph, maxTokens),
          buffer |-> <<>>]
    ELSE ParagraphStep(acc, paragraph, maxTokens, FALSE)

RECURSIVE CharOnlyLoop(_, _, _)
CharOnlyLoop(acc, paragraphs, maxTokens) ==
    IF paragraphs = <<>> THEN acc
    ELSE CharOnlyLoop(CharOnlyStep(acc, Head(paragraphs), maxTokens),
                      Tail(paragraphs), maxTokens)

\* C17: with preferParagraphBoundaries = false every paragraph over the
\* limit is split by fixed-size character slicing only, wherever it stands
\* in the text.
C17_LongParagraphsSlicedByChars ==
    (chunker.called /\ ~chunker.preferParagraphBoundaries) =>
        chunker.chunks =
            Flush(CharOnlyLoop([chunks |-> <<>>, buffer |-> <<>>], ParagraphsOfRaw,
                               Max(1, chunker.maxTokensPerChunk))).chunks

-----------------------------------------------------------------------------
(* Properties of ingestText (SpecIngest). *)

\* the labels of the batch invocation p has built
LabelsOf(p) ==
    [i \in 1..Len(ingest[p].chunks) |-> ingest[p].chunks[i].metadata.pageOrSection]

ChunkOrdinal(i) == <<"c", "h", "u", "n", "k", " ">> \o Decimal(i)

\* '<label> (chunk i)'
Labelled(label, i) == label \o <<" ", "(">> \o ChunkOrdinal(i) \o <<")">>

PairwiseDistinct(seq) ==
    \A i, j \in 1..Len(seq) : i # j => seq[i] # seq[j]

\* invocations p and q were given the same text, label and options
SameIngestion(p, q) ==
    /\ ingest[p].text = ingest[q].text
    /\ ingest[p].sectionLabel = ingest[q].sectionLabel
    /\ ingest[p].maxTokensPerChunk = ingest[q].maxTokensPerChunk
    /\ ingest[p].preferParagraphBoundaries = ingest[q].preferParagraphBoundaries

Repeatable ==
    \A p, q \in IngestCalls :
        (ingest[p].pc = "returned" /\ ingest[q].pc = "returned" /\ SameIngestion(p, q)) =>
            /\ ingest[p].chunksAdded = ingest[q].chunksAdded
            /\ LabelsOf(p) = LabelsOf(q)

\* C18 as stated: the labels of one ingestText call are
\* '<sectionLabel> (chunk i)', or 'chunk i' when no label is given, for
\* i = 1..N in chunk order and pairwise distinct; two calls with the same
\* text and options return the same chunksAdded and the same labels.
C18_LabelsAsGiven ==
    /\ \A p \in IngestCalls :
          /\ \A i \in 1..Len(ingest[p].chunks) :
                LabelsOf(p)[i] =
                    IF ingest[p].sectionLabel = {} THEN ChunkOrdinal(i)
                    ELSE Labelled(CHOOSE l \in ingest[p].sectionLabel : TRUE, i)
          /\ PairwiseDistinct(LabelsOf(p))
    /\ Repeatable

\* the label without the white space around it; nothing when there is none
LabelPrefix(sectionLabel) ==
    IF sectionLabel = {} THEN <<>> ELSE Trim(CHOOSE l \in sectionLabel : TRUE)

\* C18, amended: the labels of one ingestText call are
\* '<trimmed sectionLabel> (chunk i)', or 'chunk i' when the label is absent
\* or blank, for i = 1..N in chunk order and pairwise distinct; two calls
\* with the same text, label and options return the same chunksAdded and
\* the same labels.
C18_LabelsTrimmed ==
    /\ \A p \in IngestCalls :
          /\ \A i \in 1..Len(ingest[p].chunks) :
                LabelsOf(p)[i] =
                    IF LabelPrefix(ingest[p].sectionLabel) = <<>> THEN ChunkOrdinal(i)
                    ELSE Labelled(LabelPrefix(ingest[p].sectionLabel), i)
          /\ PairwiseDistinct(LabelsOf(p))
          /\ ingest[p].pc = "returned" => ingest[p].chunksAdded = Len(LabelsOf(p))
    /\ Repeatable

C18_Witness ==
    /\ \A p \in IngestCalls :
          /\ ingest[p].pc = "returned"
          /\ ingest[p].sectionLabel = {<<" ", "S">>}
          /\ ingest[p].maxTokensPerChunk = 1
          /\ ingest[p].chunksAdded = 3
    /\ LabelsOf(1)[3] = <<"S", " ", "(", "c", "h", "u", "n", "k", " ", "3", ")">>
    /\ Len(items) = 6

\* C19: an ingestText call whose documentName is empty after trimming ends
\* in an error, and one whose text is empty after CRLF normalization and
\* trimming returns chunksAdded = 0 without error; in both cases the call
\* makes no embedding call and leaves the index as it was.
C19_EarlyExits ==
    [][\A p \in IngestCalls :
         (ingest[p].pc = "idle" /\ ingest'[p].pc # "idle") =>
            LET after == ingest'[p]
                quiet == after.embedCalls = 0 /\ after.chunks = <<>> /\ items' = items
            IN  /\ after.documentName = <<>> =>
                      after.pc = "thrown" /\ after.err # "" /\ quiet
                /\ (after.documentName # <<>> /\ Trim(NormalizeCrlf(after.text)) = <<>>) =>
                      /\ after.pc = "returned" /\ after.err = ""
                      /\ after.chunksAdded = 0 /\ quiet]_vars

C19_Witness ==
    /\ ingest[1].pc = "thrown" /\ ingest[1].documentName = <<>>
    /\ ingest[1].embedCalls = 0
    /\ ingest[2].pc = "returned" /\ ingest[2].documentName = <<"d">>
    /\ ingest[2].text = <<" ", "\r", "\n">>
    /\ ingest[2].chunksAdded = 0 /\ ingest[2].embedCalls = 0
    /\ items = <<>>

-----------------------------------------------------------------------------
(* Properties of the route handlers (SpecRoute). *)

\* the request fails the validation of its route: a question that is empty
\* after trimming or longer than 4000 characters, an empty document name
FailsValidation(req) ==
    /\ ~req.malformed
    /\ \/ req.kind = "query" /\ (Trim(req.query) = <<>> \/ Len(Trim(req.query)) > 4000)
       \/ req.kind = "ingest" /\ Trim(req.documentName) = <<>>

\* C20: a request that fails validation is answered with a validation error
\* (status 400) and no embedding or generation call is made while it is
\* handled.
C20_InvalidRequestMakesNoCall ==
    \A h \in Handlers :
        FailsValidation(route.handlers[h].request) =>
            /\ route.handlers[h].externalCalls = 0
            /\ route.handlers[h].pc = "responded" => route.handlers[h].status = 400

\* seedVectorStoreOnce has returned normally to handler h, which has gone on
\* to its body
SeedReturned(h) == route.handlers[h].pc \in {"parse", "query", "ingest"}

\* a chunk of default document d is in the vector store
DefaultChunkStored(d) ==
    \E i \in 1..Len(items) :
        /\ items[i].metadata.name = Trim(DefaultDocuments[d].documentName)
        /\ items[i].metadata.text \in
              { SeedChunkTexts(d)[j] : j \in 1..Len(SeedChunkTexts(d)) }

\* default document d is in the registry
DefaultDocumentRegistered(d) ==
    [name |-> Trim(DefaultDocuments[d].documentName), text |-> DefaultDocuments[d].text]
        \in route.documents

\* C21: once seedVectorStoreOnce has returned normally to a handler, the
\* chunks of all three default documents are in the vector store and all
\* three documents are in the registry.
C21_DefaultsPresentAfterSeed ==
    \A h \in Handlers :
        SeedReturned(h) =>
            \A d \in 1..Len(DefaultDocuments) :
                DefaultChunkStored(d) /\ DefaultDocumentRegistered(d)

-----------------------------------------------------------------------------
(* Properties of ingestText interleaved with queryRag (SpecIngestQuery). *)

\* the chunks ingestText invocation p has handed to the store: none before it
\* returns, all of its chunks afterwards
HandedOver(p) == IF ingest[p].pc = "returned" THEN ingest[p].chunks ELSE <<>>

\* of these, the chunks addDocuments keeps (vectorStore.ts line 35)
Kept(p) == SelectSeq(HandedOver(p), EmbeddingAccepted)

\* C22: the index holds, of every ingestText call, either none or all of its
\* chunks, contiguous and in chunk order, and so does every store contents a
\* similaritySearch has read.
C22_AllChunksOrNone ==
    /\ items \in { HandedOver(1) \o HandedOver(2), HandedOver(2) \o HandedOver(1) }
    /\ searched \in { <<>>, HandedOver(1), HandedOver(2),
                      HandedOver(1) \o HandedOver(2), HandedOver(2) \o HandedOver(1) }

\* C22, amended: the index holds, of every ingestText call, either none of
\* its chunks or all those with a non-empty embedding, contiguous and in
\* chunk order; they are added in the step in which the call returns, and
\* every store contents a similaritySearch has read is of this form.
C22_AllKeptChunksOrNone ==
    /\ items \in { Kept(1) \o Kept(2), Kept(2) \o Kept(1) }
    /\ searched \in { <<>>, Kept(1), Kept(2), Kept(1) \o Kept(2), Kept(2) \o Kept(1) }

\* an ingestion of several chunks has returned and a query has searched its
\* chunks while the other ingestion, one chunk embedded, awaits its next
\* embedding
C22_Witness ==
    /\ ingest[1].pc = "embedding" /\ Len(ingest[1].chunks) >= 1
    /\ ingest[2].pc = "returned" /\ Len(Kept(2)) >= 2
    /\ items = Kept(2)
    /\ searched = items
    /\ pc = "attempt1"

\* ingestText invocation h takes a step and is not through: it awaits an
\* embedding or has failed
StepOfUnfinishedIngest(h) ==
    /\ ingest'[h] # ingest[h]
    /\ ingest'[h].pc \in {"embedding", "thrown"}

\* the ingest route answers the failure of its ingestText
AnswersFailedIngest(h) ==
    /\ route.handlers[h].pc = "ingest" /\ ingest[h].pc = "thrown"
    /\ route'.handlers[h].pc = "responded"

\* C23: when an embedding call fails during ingestText (on the first chunk
\* or a later one), ingestText fails and no step of that invocation, from
\* its start to its failure, has changed the index; the ingest route then
\* answers with an error and leaves the registry and the index unchanged.
C23_FailedIngestInsertsNothing ==
    [][\A h \in Handlers :
          /\ StepOfUnfinishedIngest(h) =>
                items' = items /\ route'.documents = route.documents
          /\ (ingest[h].pc = "embedding" /\ ingest'[h].pc = "thrown") =>
                ingest'[h].chunksAdded = 0 /\ ingest'[h].err = "embedding failed"
          /\ AnswersFailedIngest(h) =>
                /\ items' = items
                /\ route'.documents = route.documents
                /\ route'.handlers[h].status = 500]_vars

\* the embedding of the second chunk failed; the route has answered and the
\* index and the registry hold the defaults only
C23_Witness ==
    \E h \in Handlers :
        /\ route.handlers[h].pc = "responded" /\ route.handlers[h].status = 500
        /\ route.handlers[h].request.kind = "ingest"
        /\ ingest[h].pc = "thrown" /\ Len(ingest[h].chunks) = 1
        /\ Len(ingest[h].chunkTexts) = 2
        /\ Len(items) = Len(DefaultDocuments)
        /\ \A d \in route.documents : d.name # ingest[h].documentName

\* the index after the step begins with the index before it
IndexOnlyGrows ==
    /\ Len(items') >= Len(items)
    /\ SubSeq(items', 1, Len(items)) = items

\* handler h registers the document of its ingest request in this step
RegistersDocument(h) ==
    /\ route.handlers[h].pc = "ingest"
    /\ route'.handlers[h].pc = "responded" /\ route'.handlers[h].status = 200

\* C24: in every step of ingesting, seeding and querying, every chunk of the
\* index stays at its position with its embedding and metadata, and new
\* chunks are appended (also when the document name is one ingested before);
\* the registry holds one entry for each name, and registering a document
\* replaces the text held for its name and leaves the other entries.
C24_IndexAppendOnly ==
    [][/\ IndexOnlyGrows
       /\ \A d \in route'.documents, e \in route'.documents : d.name = e.name => d = e
       /\ \A h \in Handlers :
             RegistersDocument(h) =>
                LET entry == [name |-> Trim(route.handlers[h].request.documentName),
                              text |-> route.handlers[h].request.text]
                IN  /\ entry \in route'.documents
                    /\ { d \in route'.documents : d.name # entry.name }
                         = { d \in route.documents : d.name # entry.name }]_vars

\* one name ingested twice with different texts: the chunks of both
\* ingestions follow the default chunks in the index, the registry holds one
\* text for the name
C24_Witness ==
    /\ \A h \in Handlers :
          /\ route.handlers[h].pc = "responded" /\ route.handlers[h].status = 200
          /\ route.handlers[h].request.kind = "ingest"
    /\ route.handlers[1].request.text # route.handlers[2].request.text
    /\ Trim(route.handlers[1].request.documentName)
          = Trim(route.handlers[2].request.documentName)
    /\ Len(items) = Len(DefaultDocuments) + 3
    /\ Cardinality(route.documents) = Len(DefaultDocuments) + 1

-----------------------------------------------------------------------------
(* The size of the chunks (SpecChunk). *)

\* the text is cut by characters only: one paragraph, one sentence, too long
CutByCharsOnly ==
    /\ Len(SplitIntoParagraphs(chunker.raw)) = 1
    /\ Len(SplitIntoSentences(chunker.raw)) <= 1
    /\ EstimateTokens(chunker.raw) > chunker.maxTokensPerChunk

-----------------------------------------------------------------------------
(* The count ingestText returns (SpecIngest). *)

\* C26: the chunksAdded value ingestText returns equals the number of chunks
\* the call added to the index (index size after minus index size before),
\* whatever vectors the embedding calls returned.
C26_ChunksAddedIsIndexGrowth ==
    [][\A p \in IngestCalls :
          (ingest[p].pc # "returned" /\ ingest'[p].pc = "returned") =>
              ingest'[p].chunksAdded = Len(items') - Len(items)]_vars

-----------------------------------------------------------------------------
(* The seeding runs once (SpecRoute). *)

\* the handlers that have run the body of seedVectorStoreOnce
SeedingHandlers == { h \in Handlers : route.handlers[h].seedDoc # 0 }

\* the positions of the index that hold chunks of default document d
DefaultChunkPositions(d) ==
    { i \in 1..Len(items) :
        items[i].metadata.name = Trim(DefaultDocuments[d].documentName) }

\* C27: in every interleaving of the request handlers, the body of
\* seedVectorStoreOnce is run by at most one handler, and the index holds the
\* chunks of each default document at most once.
C27_SeedingRunsOnce ==
    /\ Cardinality(SeedingHandlers) <= 1
    /\ \A d \in 1..Len(DefaultDocuments) :
          Cardinality(DefaultChunkPositions(d)) <= Len(SeedChunkTexts(d))

\* both requests are answered, one handler has run the seeding to its end,
\* the other found the flag set; the index holds each default document once
C27_Witness ==
    /\ SeedingHandlers = {1}
    /\ route.handlers[1].pc = "responded" /\ route.handlers[1].seedDoc = Len(DefaultDocuments)
    /\ route.handlers[2].pc = "responded" /\ route.handlers[2].status = 200
    /\ route.handlers[2].request.kind = "documents"
    /\ Cardinality(route.documents) = Len(DefaultDocuments)
    /\ \A d \in 1..Len(DefaultDocuments) : Cardinality(DefaultChunkPositions(d)) = 1

-----------------------------------------------------------------------------
(* The relevance floor and the top-K cut (Spec). *)

\* the floor applied before the cut: the stored chunks with a finite score
\* >= 0.2, highest score first, cut to the first k
FloorThenTopK(its, q, k) ==
    IF Len(q) = 0 \/ NormalizeIsNull(q) THEN <<>>
    ELSE TopKCut(StableSortDesc(RelevanceFilter(ScoreAll(its, Normalize(q)))), k)

\* C28: for topK >= 1 the evidence queryRag uses is the min(topK, m)
\* highest-scoring of the m stored chunks with a finite score >= 0.2: the
\* same set as filtering by the floor first and taking the top K then.
C28_FloorAfterCutLosesNothing ==
    (EmbeddingSucceeded /\ topK >= 1) =>
        /\ Len(retrieved) = Len(FloorThenTopK(searched, queryEmbedding, topK))
        /\ { retrieved[i] : i \in 1..Len(retrieved) }
              = { FloorThenTopK(searched, queryEmbedding, topK)[i] :
                    i \in 1..Len(FloorThenTopK(searched, queryEmbedding, topK)) }

-----------------------------------------------------------------------------
(* Termination of queryRag (FairSpec). *)

\* the invocation awaits a collaborator
InFlight == pc \in {"embedding", "attempt1", "attempt2"}

\* the invocation has ended
Terminal == pc \in {"returned", "thrown"}

\* the terminal outcomes: the canned response, a validated response of the
\* last attempt with confidenceScore >= 0.3, an error
OutcomeInsufficientInformation == pc = "returned" /\ err = "" /\ result = Canned
OutcomeSuccess ==
    /\ pc = "returned" /\ err = ""
    /\ Len(genCalls) \in {1, 2}
    /\ result = ParseAndValidate(IF Len(genCalls) = 1 THEN raw1 ELSE raw2).validated
    /\ ParseAndValidate(IF Len(genCalls) = 1 THEN raw1 ELSE raw2).ok
    /\ result.confidenceScore >= 30
OutcomeFailure == pc = "thrown" /\ err # "" /\ result = NoResponse

\* the positions queryRag passes through, in order
StageOf(position) ==
    CASE position = "idle" -> 0
      [] position = "embedding" -> 1
      [] position = "attempt1" -> 2
      [] position = "attempt2" -> 3
      [] position \in {"returned", "thrown"} -> 4

\* a step of an invocation in flight moves it forward
MovesForward ==
    (InFlight /\ pc' # pc) => StageOf(pc') > StageOf(pc)

\* C29: every queryRag invocation whose collaborator calls all return or fail
\* eventually ends, in exactly one of the outcomes InsufficientInformation,
\* Success and Failure; it never goes back to retrieval and makes at most
\* one embedding call and two generation calls.
C29_QueryTerminates ==
    /\ InFlight ~> Terminal
    /\ [](Terminal =>
            \/ OutcomeInsufficientInformation /\ ~OutcomeSuccess /\ ~OutcomeFailure
            \/ OutcomeSuccess /\ ~OutcomeInsufficientInformation /\ ~OutcomeFailure
            \/ OutcomeFailure /\ ~OutcomeInsufficientInformation /\ ~OutcomeSuccess)
    /\ [](embedCalls <= 1 /\ Len(genCalls) <= 2)
    /\ [][MovesForward]_vars

\* the invocation has ended in Success on its second generation attempt
C29_Witness ==
    /\ OutcomeSuccess /\ Len(genCalls) = 2 /\ Len(replies) = 3
    /\ ~ParseAndValidate(raw1).ok

====
